---- MODULE Spec2Model ----
(***************************************************************************)
(* Billing transaction engine of billingsystembgk (src/index.js, the       *)
(* variant of lines 1840-3760, identical to src/services/emitir-recibo.js  *)
(* for the Issue handler).                                                 *)
(*                                                                         *)
(* The database is the shared state: the tables recibos, recibos_detalle   *)
(* and cortes.  Each HTTP request runs in a process of Procs and advances  *)
(* one awaited statement (or one group of statements that touch no shared  *)
(* state between them) per step.                                           *)
(*                                                                         *)
(* Transactions (executeInTransaction): the step XBegin is the locking     *)
(* read SELECT ... FOR UPDATE together with the consistent reads that      *)
(* follow it; it takes the InnoDB row lock of the receipt.  XCommit makes  *)
(* the writes of the transaction visible at once and releases the row      *)
(* lock.  Between the two, every other statement that writes or locks the  *)
(* same receipt row waits (its action is disabled), and every other        *)
(* reader sees the last committed state, which is what the variables       *)
(* hold.  Statements issued through the pool outside a transaction are     *)
(* autocommit statements: one atomic step each.                            *)
(*                                                                         *)
(* Faults: the document renderer and the upload may throw; a statement     *)
(* that writes the artifact reference back may throw.  The statements of   *)
(* the cleanup steps (catch / finally) are taken to execute.               *)
(***************************************************************************)
EXTENDS Integers, Sequences, FiniteSets, TLC

(* ------------------------------------------------------------------ *)
(* Bounds of the model                                                 *)
(* ------------------------------------------------------------------ *)
NumProcs == 2

MaxRequests == 3

Procs == 1..NumProcs

\* SQL NULL: "NULL" in a text column, the empty tuple in a column that holds a
\* bucket id or an artifact reference, 0 in a numeric column (the code tests
\* those with !x or x || 0, which take 0 and null alike).
NULL == "NULL"

NULL_REF == << >>

(* ------------------------------------------------------------------ *)
(* Scenario data: the rows created by the intake process               *)
(* ------------------------------------------------------------------ *)
Recibos == {1, 2}

Detalles == {1, 2, 3}

\* Operating date of both receipts and billing period of line 1.
Escenario == [fecha |-> 20240115, mes |-> 1, anio |-> 2024]

ReciboInicial(r) ==
    [ id_alumno            |-> 1,
      id_plantel           |-> 1,
      id_usuario           |-> 1,
      fecha                |-> Escenario.fecha,
      forma_pago           |-> IF r = 1 THEN "Efectivo" ELSE "Tarjeta",
      status_recibo        |-> "Borrador",
      total_recibo         |-> 0,
      encorte              |-> NULL_REF,
      fecha_emision        |-> NULL,
      fecha_cancelacion    |-> NULL,
      ruta_pdf             |-> NULL_REF,
      generando_pdf        |-> FALSE,
      solicita_cancelacion |-> FALSE,
      enimpresion          |-> FALSE,
      calculando           |-> FALSE,
      error_message        |-> NULL ]

\* Line 1 belongs to receipt 1, lines 2 and 3 to receipt 2.  mes2 is the
\* billing month of line 2: equal to the month of line 1 (a duplicate
\* monthly charge) or the month after it.
DetalleInicial(d, mes2) ==
    [ id_recibo           |-> IF d = 1 THEN 1 ELSE 2,
      id_producto         |-> IF d = 3 THEN 2 ELSE 1,
      frecuencia_producto |-> IF d = 3 THEN "Unico" ELSE "Mensual",
      mes                 |-> IF d = 1 THEN Escenario.mes ELSE IF d = 2 THEN mes2 ELSE 0,
      anio                |-> IF d = 3 THEN 0 ELSE Escenario.anio,
      precio_base         |-> IF d = 3 THEN 250 ELSE 1000,
      monto_ajuste        |-> IF d = 3 THEN 0 - 20 ELSE 0,
      status_detalle      |-> "Borrador",
      descuento           |-> 0,
      recargo             |-> 0,
      beca                |-> 0,
      precio_final        |-> 0 ]

\* reglas_producto joined with reglas_producto_formas_pago and
\* reglas_producto_casos; percentages in hundredths (10 is 0.10).
Reglas ==
    { [ id_regla |-> 1, id_producto |-> 1, formas_pago |-> {"Efectivo"},
        casos |-> {"Corriente", "Adelantado"}, fecha_inicio |-> 0,
        fecha_fin |-> 0, es_periodica |-> 0, dia_mes_inicio |-> 0,
        dia_mes_fin |-> 0, prioridad |-> 1, pct_descuento |-> 10,
        pct_recargo |-> 0 ],
      [ id_regla |-> 2, id_producto |-> 1, formas_pago |-> {"Efectivo", "Tarjeta"},
        casos |-> {"Vencido", "Adelantado"}, fecha_inicio |-> 20240101,
        fecha_fin |-> 0, es_periodica |-> 0, dia_mes_inicio |-> 0,
        dia_mes_fin |-> 0, prioridad |-> 2, pct_descuento |-> 0,
        pct_recargo |-> 5 ],
      [ id_regla |-> 3, id_producto |-> 2, formas_pago |-> {"Tarjeta"},
        casos |-> {"Corriente"}, fecha_inicio |-> 0,
        fecha_fin |-> 20241231, es_periodica |-> 1, dia_mes_inicio |-> 1,
        dia_mes_fin |-> 15, prioridad |-> 1, pct_descuento |-> 5,
        pct_recargo |-> 0 ],
      [ id_regla |-> 4, id_producto |-> 1, formas_pago |-> {"Efectivo"},
        casos |-> {"Corriente"}, fecha_inicio |-> 0,
        fecha_fin |-> 0, es_periodica |-> 1, dia_mes_inicio |-> 10,
        dia_mes_fin |-> 15, prioridad |-> 3, pct_descuento |-> 5,
        pct_recargo |-> 0 ] }

\* alumnos_mensuales.beca_monto of (student, product), in hundredths; 0
\* when the pair has no row.
BecaMonto(alumno, producto) ==
    IF alumno = 1 /\ producto = 1 THEN 25
    ELSE IF alumno = 2 /\ producto = 2 THEN 50
    ELSE 0

(* ------------------------------------------------------------------ *)
(* Students, products and monthly products                             *)
(* ------------------------------------------------------------------ *)
Alumnos == {1, 2}

\* Table productos: campus, default flag, status, recurrence and the level
\* the product applies to (NULL: every level).
Productos ==
    { [ id_producto |-> 1, id_plantel |-> 1, producto_default |-> TRUE,
        status |-> "Activo", frecuencia |-> "Mensual", aplica_nivel |-> NULL ],
      [ id_producto |-> 2, id_plantel |-> 1, producto_default |-> TRUE,
        status |-> "Activo", frecuencia |-> "Unico", aplica_nivel |-> NULL ],
      [ id_producto |-> 3, id_plantel |-> 1, producto_default |-> TRUE,
        status |-> "Activo", frecuencia |-> "Mensual", aplica_nivel |-> "Primaria" ],
      [ id_producto |-> 4, id_plantel |-> 2, producto_default |-> TRUE,
        status |-> "Activo", frecuencia |-> "Mensual", aplica_nivel |-> NULL ],
      [ id_producto |-> 5, id_plantel |-> 1, producto_default |-> TRUE,
        status |-> "Inactivo", frecuencia |-> "Mensual", aplica_nivel |-> NULL ],
      [ id_producto |-> 6, id_plantel |-> 1, producto_default |-> FALSE,
        status |-> "Activo", frecuencia |-> "Mensual", aplica_nivel |-> "Secundaria" ] }

\* A row of alumnos joined with the level of its group.
AlumnoInicial(a) ==
    [ status |-> "Activo", id_plantel_academico |-> 1, nivel |-> "Primaria" ]

\* A row of alumnos_mensuales.
Mensual(id, alumno, producto) ==
    [ id_alumno_mensual |-> id, id_alumno |-> alumno, id_producto |-> producto,
      beca_monto |-> BecaMonto(alumno, producto) ]

\* The rows of alumnos_mensuales that carry a scholarship.
MensualesBeca == { Mensual(1, 1, 1), Mensual(2, 2, 2) }

\* Rows left from a former campus and level of student 1.
MensualesAntiguas == { Mensual(3, 1, 3), Mensual(4, 1, 4), Mensual(5, 1, 6) }

\* States of the students and of their tables before any request: campus
\* and level of student 1, status of student 2, the monthly products
\* already assigned, and whether a cancelled charge of the current month
\* exists.
EntradasAlumnos ==
    [ plantel1 : { 1, 2 },
      nivel1   : { NULL, "Primaria", "Secundaria" },
      status2  : { "Activo", "Baja" },
      previas  : { "ninguna", "beca", "antiguas" },
      cargo    : BOOLEAN ]

AlumnoDe(e, a) ==
    IF a = 1
    THEN [ AlumnoInicial(a) EXCEPT !.id_plantel_academico = e.plantel1,
                                   !.nivel = e.nivel1 ]
    ELSE [ AlumnoInicial(a) EXCEPT !.status = e.status2 ]

MensualesDe(e) ==
    IF e.previas = "ninguna" THEN {}
    ELSE IF e.previas = "beca" THEN MensualesBeca
    ELSE MensualesBeca \cup MensualesAntiguas

CargosDe(e) ==
    IF e.cargo
    THEN { [ id_cargo |-> 1, id_alumno |-> 1, id_producto |-> 1,
             mes |-> Escenario.mes, anio |-> Escenario.anio,
             status_cargo |-> "Cancelado", motivo_cancelacion |-> "baja" ] }
    ELSE {}

\* Rows the intake process can leave for receipt 2 and for lines 2 and 3:
\* operating date (0: none), cashier, student (0: none), campus (0: none),
\* payment method, the receipt that holds lines 2 and 3 (1: receipt 2 has
\* no line), the billing period <<month, year>> of line 2, the manual
\* adjustment of line 3 and the total left on receipt 2 before any request.
Entradas ==
    [ fecha2   : { 20240115, 20231220, 0 },
      usuario2 : { 1, 2 },
      alumno2  : { 1, 2, 0 },
      plantel2 : { 1, 0 },
      forma2   : { "Efectivo", "Tarjeta" },
      duenio   : { 1, 2 },
      periodo2 : { <<12, 2023>>, <<1, 2024>>, <<2, 2024>> },
      periodo3 : { <<0, 0>>, <<12, 2023>>, <<2, 2024>> },
      ajuste3  : { 0 - 20, 0 - 300 },
      total2   : { 0, 500, 0 - 5 } ]

ReciboDe(e, r) ==
    IF r = 1 THEN ReciboInicial(r)
    ELSE [ ReciboInicial(r) EXCEPT !.fecha = e.fecha2,
                                   !.id_usuario = e.usuario2,
                                   !.id_alumno = e.alumno2,
                                   !.id_plantel = e.plantel2,
                                   !.forma_pago = e.forma2,
                                   !.total_recibo = e.total2 ]

DetalleDe(e, d) ==
    IF d = 1 THEN DetalleInicial(d, e.periodo2[1])
    ELSE [ DetalleInicial(d, e.periodo2[1]) EXCEPT
             !.id_recibo = e.duenio,
             !.mes = IF d = 3 THEN e.periodo3[1] ELSE @,
             !.anio = IF d = 2 THEN e.periodo2[2] ELSE e.periodo3[2],
             !.monto_ajuste = IF d = 3 THEN e.ajuste3 ELSE @ ]

\* Cash expenses registered for a cash-cut bucket.
GastosEfectivo(corte) == 50

VARIABLES
    recibos,     \* table recibos: receipt id -> row (committed state)
    detalles,    \* table recibos_detalle: line id -> row (committed state)
    cortes,      \* table cortes: a function from the existing bucket ids to rows
    gcs,         \* artifact store: path -> status shown by the stored document
    rowLock,     \* receipt id -> the process whose transaction locks the row, or 0
    pc,          \* process -> position in its handler
    loc,         \* process -> the handler's local variables
    resp,        \* process -> the response of its last finished request
    nreq,        \* number of requests received so far
    alumnos,            \* table alumnos joined with grupos: student id -> row
    alumnos_mensuales,  \* table alumnos_mensuales: the set of its rows
    alumnos_cargos      \* table alumnos_cargos: the set of its rows

\* The tables of students, of their monthly products and of their charges.
TablasAlumnos == <<alumnos, alumnos_mensuales, alumnos_cargos>>

vars == <<recibos, detalles, cortes, gcs, rowLock, pc, loc, resp, nreq,
          alumnos, alumnos_mensuales, alumnos_cargos>>

(* ------------------------------------------------------------------ *)
(* Helpers                                                             *)
(* ------------------------------------------------------------------ *)
RECURSIVE SumaSobre(_, _)
\* Sum of f[x] over the finite set S.
SumaSobre(S, f) ==
    IF S = {} THEN 0
    ELSE LET x == CHOOSE y \in S : TRUE
         IN f[x] + SumaSobre(S \ {x}, f)

\* Mutant: the price is rounded towards zero.
CeilCent_Trunca(a) == IF a >= 0 THEN a \div 100 ELSE 0 - ((0 - a) \div 100)

\* Math.ceil(a / 100) for an integer a of hundredths.
CeilCent(a) == 0 - ((0 - a) \div 100)

Max(a, b) == IF a >= b THEN a ELSE b

\* Date parts of a date kept as YYYYMMDD (getFullYear, getMonth() + 1, getDate).
Anio(fecha) == fecha \div 10000

Mes(fecha) == (fecha \div 100) % 100

Dia(fecha) == fecha % 100

\* Mutant: the date part of the bucket id is the day of processing.
generateCorteId_Hoy(recibo) ==
    << recibo.id_usuario, recibo.id_plantel, Escenario.fecha >>

\* generateCorteId: `${id_usuario}-${id_plantel}-${YYYY}${MM}${DD}` of the
\* receipt's own operating date.
generateCorteId(recibo) ==
    << recibo.id_usuario, recibo.id_plantel,
       Anio(recibo.fecha) * 10000 + Mes(recibo.fecha) * 100 + Dia(recibo.fecha) >>

CorteIds == { generateCorteId(ReciboInicial(r)) : r \in Recibos }

\* getReciboPdfPath(nombre) and the fallback path `recibos/${id_recibo}.pdf`.
getReciboPdfPath(nombre) == << "recibos", nombre >>

\* uploadPdfToGCS returns `gs://${bucket}/${filepath}`.
RutaGs(path) == << "gs" >> \o path

\* ruta_pdf.startsWith(prefix) and ruta_pdf.replace(prefix, "").
TienePrefijoGs(ruta) == Len(ruta) > 0 /\ Head(ruta) = "gs"

SinPrefijoGs(ruta) == Tail(ruta)

\* The names a caller gives to the document of a receipt.
NombreDe(r) == "nombre" \o ToString(r)

Paths == { getReciboPdfPath(NombreDe(r)) : r \in Recibos }
           \cup { getReciboPdfPath(ToString(r)) : r \in Recibos }

DetallesDe(dets, r) == { d \in Detalles : dets[d].id_recibo = r }

DetallesBorrador(dets, r) ==
    { d \in DetallesDe(dets, r) : dets[d].status_detalle = "Borrador" }

(* ------------------------------------------------------------------ *)
(* Pricing: calculateReciboTotal                                       *)
(* ------------------------------------------------------------------ *)
\* Mutant: the months are compared without the years.
Caso_SoloMes(det, year, month) ==
    IF det.mes # 0 /\ det.anio # 0
    THEN IF det.mes > month THEN "Adelantado"
         ELSE IF det.mes < month THEN "Vencido"
         ELSE "Corriente"
    ELSE "Corriente"

\* Temporal case of a line against the operating date's (year, month).
Caso(det, year, month) ==
    IF det.mes # 0 /\ det.anio # 0
    THEN IF det.anio > year \/ (det.anio = year /\ det.mes > month)
         THEN "Adelantado"
         ELSE IF det.anio < year \/ (det.anio = year /\ det.mes < month)
              THEN "Vencido"
              ELSE "Corriente"
    ELSE "Corriente"

\* The WHERE clause shared by both rule queries.
ReglaVigente(rp, recibo, det) ==
    /\ rp.id_producto = det.id_producto
    /\ recibo.forma_pago \in rp.formas_pago
    /\ (rp.fecha_inicio = 0 \/ rp.fecha_inicio <= recibo.fecha)
    /\ (rp.fecha_fin = 0 \/ rp.fecha_fin >= recibo.fecha)
    /\ \/ rp.es_periodica = 0
       \/ /\ rp.es_periodica = 1
          /\ rp.dia_mes_inicio <= Dia(recibo.fecha)
          /\ Dia(recibo.fecha) <= rp.dia_mes_fin

\* Mutant: the query with the join on the cases is used for every line.
ReglasAplicables_SiempreCaso(recibo, det) ==
    { rp \in Reglas :
        /\ ReglaVigente(rp, recibo, det)
        /\ Caso(det, Anio(recibo.fecha), Mes(recibo.fecha)) \in rp.casos }

\* The rows of the rule query of a line: with the join on the cases for a
\* Monthly line, without it otherwise.
ReglasAplicables(recibo, det) ==
    IF det.frecuencia_producto = "Mensual"
    THEN { rp \in Reglas :
             /\ ReglaVigente(rp, recibo, det)
             /\ Caso(det, Anio(recibo.fecha), Mes(recibo.fecha)) \in rp.casos }
    ELSE { rp \in Reglas : ReglaVigente(rp, recibo, det) }

RECURSIVE PorPrioridad(_)
\* ORDER BY rp.prioridad DESC: the rows of S as the sequence the query
\* returns (rows of equal priority by id_regla).
PorPrioridad(S) ==
    IF S = {} THEN << >>
    ELSE LET m == CHOOSE x \in S :
                    \A y \in S : \/ x.prioridad > y.prioridad
                                 \/ /\ x.prioridad = y.prioridad
                                    /\ x.id_regla <= y.id_regla
         IN << m >> \o PorPrioridad(S \ {m})

\* Mutant: only the first row, the rule of highest priority, is applied.
SumaReglas_SoloPrimera(reglas, precioBase, campo) ==
    IF reglas = << >> THEN 0 ELSE precioBase * Head(reglas)[campo]

RECURSIVE SumaReglas(_, _, _)
\* for (const regla of reglas) { if (regla[campo]) acc += precioBase * regla[campo] }
SumaReglas(reglas, precioBase, campo) ==
    IF reglas = << >> THEN 0
    ELSE (IF Head(reglas)[campo] # 0 THEN precioBase * Head(reglas)[campo] ELSE 0)
         + SumaReglas(Tail(reglas), precioBase, campo)

\* Mutant: the discount is taken on the final price stored on the line by
\* the previous computation when there is one.
PrecioDetalle_SobrePrevio(recibo, det) ==
    LET base      == IF det.precio_final # 0 THEN det.precio_final ELSE det.precio_base
        reglas    == PorPrioridad(ReglasAplicables(recibo, det))
        descuento == SumaReglas(reglas, base, "pct_descuento")
        recargo   == SumaReglas(reglas, base, "pct_recargo")
        beca      == IF det.frecuencia_producto = "Mensual"
                     THEN base * BecaMonto(recibo.id_alumno, det.id_producto) ELSE 0
        calculado == 100 * base - descuento - beca + recargo + 100 * det.monto_ajuste
    IN [ descuento    |-> descuento,
         recargo      |-> recargo,
         beca         |-> beca,
         precio_final |-> Max(0, CeilCent(calculado)) ]

\* Mutant: the scholarship is applied whatever the recurrence of the line.
PrecioDetalle_BecaSiempre(recibo, det) ==
    LET reglas    == PorPrioridad(ReglasAplicables(recibo, det))
        descuento == SumaReglas(reglas, det.precio_base, "pct_descuento")
        recargo   == SumaReglas(reglas, det.precio_base, "pct_recargo")
        beca      == det.precio_base * BecaMonto(recibo.id_alumno, det.id_producto)
        calculado == 100 * det.precio_base - descuento - beca + recargo
                     + 100 * det.monto_ajuste
    IN [ descuento    |-> descuento,
         recargo      |-> recargo,
         beca         |-> beca,
         precio_final |-> Max(0, CeilCent(calculado)) ]

\* Amounts of one line, discount, surcharge and scholarship in hundredths.
PrecioDetalle(recibo, det) ==
    LET reglas    == PorPrioridad(ReglasAplicables(recibo, det))
        descuento == SumaReglas(reglas, det.precio_base, "pct_descuento")
        recargo   == SumaReglas(reglas, det.precio_base, "pct_recargo")
        becaPct   == BecaMonto(recibo.id_alumno, det.id_producto)
        beca      == IF det.frecuencia_producto = "Mensual"
                     THEN det.precio_base * becaPct ELSE 0
        ajuste    == det.monto_ajuste
        calculado == 100 * det.precio_base - descuento - beca + recargo + 100 * ajuste
    IN [ descuento    |-> descuento,
         recargo      |-> recargo,
         beca         |-> beca,
         precio_final |-> Max(0, CeilCent(calculado)) ]

\* Mutant: the empty line set returns 0 without storing it.
SinLineas_SinEscribir(recs, dets, r) ==
    [ error |-> NULL, recibos |-> recs, detalles |-> dets, total |-> 0 ]

\* if (detalles.length === 0): UPDATE recibos SET total_recibo = 0 and
\* return { reciboId, total: 0 }.
SinLineas(recs, dets, r) ==
    [ error    |-> NULL,
      recibos  |-> [ recs EXCEPT ![r].total_recibo = 0 ],
      detalles |-> dets,
      total    |-> 0 ]

\* Mutant: the total is assigned from each line instead of accumulated, so
\* it ends as the final price of the last line.
calculateReciboTotal_SoloUltima(recs, dets, r) ==
    IF recs[r].status_recibo # "Borrador"
    THEN [ error |-> "no_borrador", recibos |-> recs, detalles |-> dets, total |-> 0 ]
    ELSE IF recs[r].fecha = 0
    THEN [ error |-> "sin_fecha", recibos |-> recs, detalles |-> dets, total |-> 0 ]
    ELSE IF DetallesBorrador(dets, r) = {}
    THEN SinLineas(recs, dets, r)
    ELSE LET lineas == DetallesBorrador(dets, r)
             ultima == CHOOSE d \in lineas : \A x \in lineas : x <= d
             precio == [ d \in lineas |-> PrecioDetalle(recs[r], dets[d]) ]
             dets2  == [ d \in Detalles |->
                           IF d \in lineas
                           THEN [ dets[d] EXCEPT !.descuento = precio[d].descuento,
                                                 !.recargo = precio[d].recargo,
                                                 !.beca = precio[d].beca,
                                                 !.precio_final = precio[d].precio_final ]
                           ELSE dets[d] ]
         IN [ error    |-> NULL,
              recibos  |-> [ recs EXCEPT ![r].total_recibo = precio[ultima].precio_final ],
              detalles |-> dets2,
              total    |-> precio[ultima].precio_final ]

\* calculateReciboTotal(conn, reciboId) on the tables recs, dets: the error
\* it throws, or the tables it leaves and the total it returns.
calculateReciboTotal(recs, dets, r) ==
    IF recs[r].status_recibo # "Borrador"
    THEN [ error |-> "no_borrador", recibos |-> recs, detalles |-> dets, total |-> 0 ]
    ELSE IF recs[r].fecha = 0
    THEN [ error |-> "sin_fecha", recibos |-> recs, detalles |-> dets, total |-> 0 ]
    ELSE IF DetallesBorrador(dets, r) = {}
    THEN SinLineas(recs, dets, r)
    ELSE LET lineas == DetallesBorrador(dets, r)
             precio == [ d \in lineas |-> PrecioDetalle(recs[r], dets[d]) ]
             dets2  == [ d \in Detalles |->
                           IF d \in lineas
                           THEN [ dets[d] EXCEPT !.descuento = precio[d].descuento,
                                                 !.recargo = precio[d].recargo,
                                                 !.beca = precio[d].beca,
                                                 !.precio_final = precio[d].precio_final ]
                           ELSE dets[d] ]
             total  == SumaSobre(lineas, [ d \in lineas |-> precio[d].precio_final ])
         IN [ error    |-> NULL,
              recibos  |-> [ recs EXCEPT ![r].total_recibo = total ],
              detalles |-> dets2,
              total    |-> total ]

(* ------------------------------------------------------------------ *)
(* Cash-cut aggregation: the stored procedure sp_recalcular_corte      *)
(* ------------------------------------------------------------------ *)
TotalForma(recs, corte, forma) ==
    LET miembros == { r \in Recibos : /\ recs[r].encorte = corte
                                      /\ recs[r].status_recibo = "Emitido"
                                      /\ recs[r].forma_pago = forma }
    IN SumaSobre(miembros, [ r \in miembros |-> recs[r].total_recibo ])

\* The row of bucket corte recomputed from the receipts linked to it.
sp_recalcular_corte(recs, corte) ==
    LET efectivo      == TotalForma(recs, corte, "Efectivo")
        tarjeta       == TotalForma(recs, corte, "Tarjeta")
        transferencia == TotalForma(recs, corte, "Transferencia")
    IN [ total_efectivo      |-> efectivo,
         total_tarjeta       |-> tarjeta,
         total_transferencia |-> transferencia,
         total               |-> efectivo + tarjeta + transferencia,
         gastos_efectivo     |-> GastosEfectivo(corte),
         total_efectivo_neto |-> efectivo - GastosEfectivo(corte) ]


(* ------------------------------------------------------------------ *)
(* Processes                                                           *)
(* ------------------------------------------------------------------ *)
LocIdle ==
    [ op |-> "none", id |-> 0, corteId |-> NULL_REF, ruta |-> NULL_REF,
      rowRuta |-> NULL_REF, warning |-> FALSE, error |-> NULL,
      matriz |-> NULL_REF ]

RespNone ==
    [ op |-> "none", id |-> 0, ok |-> FALSE, warning |-> FALSE,
      ruta_pdf |-> NULL_REF, error |-> NULL ]

LocDe(o, r) == [ LocIdle EXCEPT !.op = o, !.id = r ]

\* The response of the request whose locals are l: res.json(...) when no
\* error was caught, next(error) otherwise.
Respuesta(l) ==
    [ op       |-> l.op,
      id       |-> l.id,
      ok       |-> l.error = NULL,
      warning  |-> l.error = NULL /\ l.warning,
      ruta_pdf |-> IF l.error = NULL THEN l.ruta ELSE NULL_REF,
      error    |-> l.error ]

\* Columns of a cortes row that the stored procedure leaves alone, as they
\* are in a row it creates.
CorteNuevo == [ ruta_pdf |-> NULL_REF, enimpresion |-> FALSE ]

\* Mutant: the call adds the sums of the linked receipts to the stored row.
CortesTras_Incremental(cs, recs, c) ==
    [ x \in (DOMAIN cs) \cup {c} |->
        IF x # c THEN cs[x]
        ELSE LET t == sp_recalcular_corte(recs, c)
                 a == IF c \in DOMAIN cs THEN cs[c]
                      ELSE [ total_efectivo |-> 0, total_tarjeta |-> 0,
                             total_transferencia |-> 0, total |-> 0,
                             gastos_efectivo |-> 0, total_efectivo_neto |-> 0,
                             ruta_pdf |-> NULL_REF, enimpresion |-> FALSE ]
             IN [ total_efectivo      |-> a.total_efectivo + t.total_efectivo,
                  total_tarjeta       |-> a.total_tarjeta + t.total_tarjeta,
                  total_transferencia |-> a.total_transferencia + t.total_transferencia,
                  total               |-> a.total + t.total,
                  gastos_efectivo     |-> t.gastos_efectivo,
                  total_efectivo_neto |-> a.total_efectivo + t.total_efectivo - t.gastos_efectivo,
                  ruta_pdf            |-> a.ruta_pdf,
                  enimpresion         |-> a.enimpresion ] ]

\* Mutant: the call only fills the row of a bucket that does not exist yet.
CortesTras_SoloAlCrear(cs, recs, c) ==
    IF c \in DOMAIN cs
    THEN cs
    ELSE [ x \in (DOMAIN cs) \cup {c} |->
             IF x = c
             THEN [ total_efectivo      |-> sp_recalcular_corte(recs, c).total_efectivo,
                    total_tarjeta       |-> sp_recalcular_corte(recs, c).total_tarjeta,
                    total_transferencia |-> sp_recalcular_corte(recs, c).total_transferencia,
                    total               |-> sp_recalcular_corte(recs, c).total,
                    gastos_efectivo     |-> sp_recalcular_corte(recs, c).gastos_efectivo,
                    total_efectivo_neto |-> sp_recalcular_corte(recs, c).total_efectivo_neto,
                    ruta_pdf            |-> NULL_REF,
                    enimpresion         |-> FALSE ]
             ELSE cs[x] ]

\* The table cortes after CALL sp_recalcular_corte(c) inside a transaction
\* that leaves the receipts as recs: the totals of row c are rewritten; the
\* row is created when it does not exist and a receipt is linked to c.
CortesTras(cs, recs, c) ==
    LET previa == IF c \in DOMAIN cs
                  THEN [ ruta_pdf |-> cs[c].ruta_pdf, enimpresion |-> cs[c].enimpresion ]
                  ELSE CorteNuevo
        t      == sp_recalcular_corte(recs, c)
        fila   == [ total_efectivo      |-> t.total_efectivo,
                    total_tarjeta       |-> t.total_tarjeta,
                    total_transferencia |-> t.total_transferencia,
                    total               |-> t.total,
                    gastos_efectivo     |-> t.gastos_efectivo,
                    total_efectivo_neto |-> t.total_efectivo_neto,
                    ruta_pdf            |-> previa.ruta_pdf,
                    enimpresion         |-> previa.enimpresion ]
    IN IF c \in DOMAIN cs \/ \E r \in Recibos : recs[r].encorte = c
       THEN [ x \in (DOMAIN cs) \cup {c} |-> IF x = c THEN fila ELSE cs[x] ]
       ELSE cs

Init ==
    /\ recibos = [ r \in Recibos |-> ReciboInicial(r) ]
    /\ \E mes2 \in { Escenario.mes, Escenario.mes + 1 } :
          detalles = [ d \in Detalles |-> DetalleInicial(d, mes2) ]
    /\ cortes = [ c \in {} |-> 0 ]
    /\ gcs = [ path \in Paths |-> "none" ]
    /\ rowLock = [ r \in Recibos |-> 0 ]
    /\ pc = [ p \in Procs |-> "idle" ]
    /\ loc = [ p \in Procs |-> LocIdle ]
    /\ resp = [ p \in Procs |-> RespNone ]
    /\ nreq = 0
    /\ alumnos = [ a \in Alumnos |-> AlumnoInicial(a) ]
    /\ alumnos_mensuales = MensualesBeca
    /\ alumnos_cargos = {}

\* A request arrives at an idle process.
Recibe(p, o, r) ==
    /\ pc[p] = "idle"
    /\ nreq < MaxRequests
    /\ nreq' = nreq + 1
    /\ resp' = [ resp EXCEPT ![p] = RespNone ]

\* The handler of p ends and its response is sent.
Termina(p) ==
    /\ pc' = [ pc EXCEPT ![p] = "idle" ]
    /\ resp' = [ resp EXCEPT ![p] = Respuesta(loc[p]) ]
    /\ loc' = [ loc EXCEPT ![p] = LocIdle ]

(* ------------------------------------------------------------------ *)
(* POST /calcular-recibo                                               *)
(* ------------------------------------------------------------------ *)
\* Mutant: the locking read of /calcular-recibo accepts any status.
CalcularAdmision_Siempre(row) == TRUE

\* WHERE clause of the locking read.
CalcularAdmision(row) == row.status_recibo = "Borrador"

CalcularBegin(p, r) ==
    /\ Recibe(p, "calcular", r)
    /\ rowLock[r] = 0
    /\ IF CalcularAdmision(recibos[r])
       THEN /\ rowLock' = [ rowLock EXCEPT ![r] = p ]
            /\ pc' = [ pc EXCEPT ![p] = "calcular_tx" ]
            /\ loc' = [ loc EXCEPT ![p] = LocDe("calcular", r) ]
       ELSE /\ rowLock' = rowLock
            /\ pc' = [ pc EXCEPT ![p] = "calcular_catch" ]
            /\ loc' = [ loc EXCEPT ![p] =
                          [ LocDe("calcular", r) EXCEPT !.error = "no_encontrado" ] ]
    /\ UNCHANGED <<recibos, detalles, cortes, gcs>>
    /\ UNCHANGED TablasAlumnos

CalcularCommit(p) ==
    /\ pc[p] = "calcular_tx"
    /\ LET r    == loc[p].id
           calc == calculateReciboTotal(recibos, detalles, r)
       IN /\ rowLock' = [ rowLock EXCEPT ![r] = 0 ]
          /\ IF calc.error = NULL
             THEN /\ recibos' = calc.recibos
                  /\ detalles' = calc.detalles
                  /\ pc' = [ pc EXCEPT ![p] = "calcular_finally" ]
                  /\ loc' = loc
             ELSE /\ UNCHANGED <<recibos, detalles>>
                  /\ pc' = [ pc EXCEPT ![p] = "calcular_catch" ]
                  /\ loc' = [ loc EXCEPT ![p].error = calc.error ]
    /\ UNCHANGED <<cortes, gcs, resp, nreq>>
    /\ UNCHANGED TablasAlumnos

CalcularCatch(p) ==
    /\ pc[p] = "calcular_catch"
    /\ rowLock[loc[p].id] = 0
    /\ recibos' = [ recibos EXCEPT ![loc[p].id].error_message = "error_calculo" ]
    /\ pc' = [ pc EXCEPT ![p] = "calcular_finally" ]
    /\ UNCHANGED <<detalles, cortes, gcs, rowLock, loc, resp, nreq>>
    /\ UNCHANGED TablasAlumnos

CalcularFinally(p) ==
    /\ pc[p] = "calcular_finally"
    /\ rowLock[loc[p].id] = 0
    /\ recibos' = [ recibos EXCEPT ![loc[p].id].calculando = FALSE ]
    /\ Termina(p)
    /\ UNCHANGED <<detalles, cortes, gcs, rowLock, nreq>>
    /\ UNCHANGED TablasAlumnos


(* ------------------------------------------------------------------ *)
(* POST /emitir-recibo                                                 *)
(* ------------------------------------------------------------------ *)
\* 1.1  WHERE clause of the locking read.
EmitirAdmision(row) ==
    /\ row.status_recibo = "Borrador"
    /\ row.generando_pdf = FALSE

\* Mutant: the guard joins the issued line to the receipt being issued
\* instead of to the student's receipts.
HayDuplicado_MismoRecibo(recs, dets, r) ==
    \E rd \in Detalles :
        /\ dets[rd].frecuencia_producto = "Mensual"
        /\ dets[rd].status_detalle = "Emitido"
        /\ recs[dets[rd].id_recibo].status_recibo = "Emitido"
        /\ dets[rd].id_recibo = r
        /\ \E rd2 \in Detalles :
              /\ dets[rd2].id_recibo = r
              /\ dets[rd2].frecuencia_producto = "Mensual"
              /\ dets[rd2].id_producto = dets[rd].id_producto
              /\ dets[rd2].mes = dets[rd].mes
              /\ dets[rd2].anio = dets[rd].anio

\* Mutant: the guard looks at the status of the line only, not at the
\* status of the receipt that holds it.
HayDuplicado_SinStatusRecibo(recs, dets, r) ==
    \E rd \in Detalles :
        /\ dets[rd].frecuencia_producto = "Mensual"
        /\ dets[rd].status_detalle = "Emitido"
        /\ recs[dets[rd].id_recibo].id_alumno = recs[r].id_alumno
        /\ \E rd2 \in Detalles :
              /\ dets[rd2].id_recibo = r
              /\ dets[rd2].frecuencia_producto = "Mensual"
              /\ dets[rd2].id_producto = dets[rd].id_producto
              /\ dets[rd2].mes = dets[rd].mes
              /\ dets[rd2].anio = dets[rd].anio

\* 1.4  The duplicate guard: an Issued Monthly line of an Issued receipt of
\* the student with the product, month and year of a Monthly line of r.
HayDuplicado(recs, dets, r) ==
    \E rd \in Detalles :
        /\ dets[rd].frecuencia_producto = "Mensual"
        /\ dets[rd].status_detalle = "Emitido"
        /\ recs[dets[rd].id_recibo].status_recibo = "Emitido"
        /\ recs[dets[rd].id_recibo].id_alumno = recs[r].id_alumno
        /\ \E rd2 \in Detalles :
              /\ dets[rd2].id_recibo = r
              /\ dets[rd2].frecuencia_producto = "Mensual"
              /\ dets[rd2].id_producto = dets[rd].id_producto
              /\ dets[rd2].mes = dets[rd].mes
              /\ dets[rd2].anio = dets[rd].anio

\* Mutant: the count of Draft lines is not checked.
EmitirSinDetalles_Nunca(dets, r) == FALSE

\* 1.3  SELECT COUNT(*) of the Draft lines of r is 0.
EmitirSinDetalles(dets, r) == DetallesBorrador(dets, r) = {}

\* Mutant: the mandatory fields and the stored total are not validated.
EmitirValidacion_SinDatos(recs, dets, r) ==
    IF ~EmitirAdmision(recs[r]) THEN "no_encontrado"
    ELSE IF EmitirSinDetalles(dets, r) THEN "sin_detalles"
    ELSE IF HayDuplicado(recs, dets, r) THEN "duplicado"
    ELSE NULL

\* 1.1 - 1.4  The error thrown by the reads of the transaction, or NULL.
EmitirValidacion(recs, dets, r) ==
    IF ~EmitirAdmision(recs[r]) THEN "no_encontrado"
    ELSE IF recs[r].id_alumno = 0 \/ recs[r].id_plantel = 0 \/ recs[r].fecha = 0
    THEN "incompletos"
    ELSE IF recs[r].total_recibo < 0 THEN "total_negativo"
    ELSE IF EmitirSinDetalles(dets, r) THEN "sin_detalles"
    ELSE IF HayDuplicado(recs, dets, r) THEN "duplicado"
    ELSE NULL

\* Mutant: the statement links the receipt to the bucket and stamps it
\* without flipping the status.
EmitirUpdate_SinStatus(row, corteId) ==
    [ row EXCEPT !.encorte = corteId,
                 !.fecha_emision = "NOW",
                 !.enimpresion = FALSE,
                 !.generando_pdf = TRUE ]

\* Mutant: Issue trusts the amounts stored on the receipt and its lines.
EmitirRecalculo_Omitido(recs, dets, r) ==
    [ error    |-> NULL,
      recibos  |-> recs,
      detalles |-> dets,
      total    |-> recs[r].total_recibo ]

\* 1.5  await calculateReciboTotal(conn, id_recibo) inside the transaction.
EmitirRecalculo(recs, dets, r) == calculateReciboTotal(recs, dets, r)

\* Mutant: the status flip does not stamp the issue time.
EmitirUpdate_SinFecha(row, corteId) ==
    [ row EXCEPT !.status_recibo = "Emitido",
                 !.encorte = corteId,
                 !.enimpresion = FALSE,
                 !.generando_pdf = TRUE ]

\* 1.8  SET clause of the status flip.
EmitirUpdate(row, corteId) ==
    [ row EXCEPT !.status_recibo = "Emitido",
                 !.encorte = corteId,
                 !.fecha_emision = "NOW",
                 !.enimpresion = FALSE,
                 !.generando_pdf = TRUE ]

\* 1.10  Draft lines of r flipped to Issued.
EmitirDetalles(dets, r) ==
    [ d \in Detalles |->
        IF dets[d].id_recibo = r /\ dets[d].status_detalle = "Borrador"
        THEN [ dets[d] EXCEPT !.status_detalle = "Emitido" ]
        ELSE dets[d] ]

\* Mutant: the catch of the document phase compensates by undoing the issue.
EmitirPdfCatchUpdate_Revierte(row) ==
    [ row EXCEPT !.generando_pdf = FALSE, !.status_recibo = "Borrador",
                 !.encorte = NULL_REF, !.fecha_emision = NULL ]

\* Mutant: the catch of the document phase leaves the lock set.
EmitirPdfCatchUpdate_SinLiberar(row) == row

\* Phase 3 catch: UPDATE recibos SET generando_pdf = FALSE WHERE id_recibo = ?
EmitirPdfCatchUpdate(row) == [ row EXCEPT !.generando_pdf = FALSE ]

\* Phase 4  WHERE clause of the write-back.
EmitirRutaWhere(row) ==
    /\ row.status_recibo = "Emitido"
    /\ row.generando_pdf = TRUE

EmitirRutaUpdate(row, ruta) ==
    [ row EXCEPT !.ruta_pdf = ruta, !.generando_pdf = FALSE ]

\* catch: UPDATE ... SET generando_pdf = FALSE WHERE ... generando_pdf = TRUE
EmitirCatchUpdate(row) ==
    IF row.generando_pdf = TRUE THEN [ row EXCEPT !.generando_pdf = FALSE ] ELSE row

EmitirBegin(p, r) ==
    /\ Recibe(p, "emitir", r)
    /\ rowLock[r] = 0
    /\ LET error == EmitirValidacion(recibos, detalles, r)
       IN IF error = NULL
          THEN /\ rowLock' = [ rowLock EXCEPT ![r] = p ]
               /\ pc' = [ pc EXCEPT ![p] = "emitir_tx" ]
               /\ loc' = [ loc EXCEPT ![p] = LocDe("emitir", r) ]
          ELSE /\ rowLock' = rowLock
               /\ pc' = [ pc EXCEPT ![p] = "emitir_catch" ]
               /\ loc' = [ loc EXCEPT ![p] = [ LocDe("emitir", r) EXCEPT !.error = error ] ]
    /\ UNCHANGED <<recibos, detalles, cortes, gcs>>
    /\ UNCHANGED TablasAlumnos

\* 1.5 - 1.12 and the commit, or the rollback when one of them throws;
\* falla: a statement after the status flip (1.10 - 1.12) or the commit
\* fails.
EmitirCommit(p) ==
    /\ pc[p] = "emitir_tx"
    /\ \E falla \in BOOLEAN :
       LET r         == loc[p].id
           calc      == EmitirRecalculo(recibos, detalles, r)
           corteId   == generateCorteId(recibos[r])
           afectadas == IF recibos[r].status_recibo = "Borrador" THEN 1 ELSE 0
           recs2     == [ calc.recibos EXCEPT ![r] = EmitirUpdate(@, corteId) ]
           error     == IF calc.error # NULL THEN calc.error
                        ELSE IF calc.total < 0 THEN "total_invalido"
                        ELSE IF afectadas # 1 THEN "critico_update"
                        ELSE IF falla THEN "db"
                        ELSE NULL
       IN /\ rowLock' = [ rowLock EXCEPT ![r] = 0 ]
          /\ IF error = NULL
             THEN /\ recibos' = recs2
                  /\ detalles' = EmitirDetalles(calc.detalles, r)
                  /\ cortes' = CortesTras(cortes, recs2, corteId)
                  /\ pc' = [ pc EXCEPT ![p] = "emitir_postcommit" ]
                  /\ loc' = [ loc EXCEPT ![p].corteId = corteId ]
             ELSE /\ UNCHANGED <<recibos, detalles, cortes>>
                  /\ pc' = [ pc EXCEPT ![p] = "emitir_catch" ]
                  /\ loc' = [ loc EXCEPT ![p].error = error ]
    /\ UNCHANGED <<gcs, resp, nreq>>
    /\ UNCHANGED TablasAlumnos

\* Phase 2: the post-commit read through the pool.
EmitirPostCommit(p) ==
    /\ pc[p] = "emitir_postcommit"
    /\ LET r == loc[p].id
       IN IF recibos[r].status_recibo = "Emitido" /\ recibos[r].encorte = loc[p].corteId
          THEN /\ pc' = [ pc EXCEPT ![p] = "emitir_pdf" ]
               /\ loc' = loc
          ELSE /\ pc' = [ pc EXCEPT ![p] = "emitir_catch" ]
               /\ loc' = [ loc EXCEPT ![p].error = "critico_postcommit" ]
    /\ UNCHANGED <<recibos, detalles, cortes, gcs, rowLock, resp, nreq>>
    /\ UNCHANGED TablasAlumnos

\* Phase 3: hydrated read, render, delete and upload all succeed.
EmitirPdf(p) ==
    /\ pc[p] = "emitir_pdf"
    /\ LET r    == loc[p].id
           path == getReciboPdfPath(NombreDe(r))
       IN /\ recibos[r].status_recibo = "Emitido"
          /\ gcs' = [ gcs EXCEPT ![path] = recibos[r].status_recibo ]
          /\ loc' = [ loc EXCEPT ![p].ruta = RutaGs(path) ]
    /\ pc' = [ pc EXCEPT ![p] = "emitir_ruta" ]
    /\ UNCHANGED <<recibos, detalles, cortes, rowLock, resp, nreq>>
    /\ UNCHANGED TablasAlumnos

\* Phase 3: the hydrated read, the renderer or the upload throws (the upload
\* after the old artifact was deleted); the catch clears the lock.
EmitirPdfFalla(p) ==
    /\ pc[p] = "emitir_pdf"
    /\ rowLock[loc[p].id] = 0
    /\ \E etapa \in { "render", "upload" } :
          gcs' = IF etapa = "upload"
                 THEN [ gcs EXCEPT ![getReciboPdfPath(NombreDe(loc[p].id))] = "none" ]
                 ELSE gcs
    /\ recibos' = [ recibos EXCEPT ![loc[p].id] = EmitirPdfCatchUpdate(@) ]
    /\ loc' = [ loc EXCEPT ![p].warning = TRUE ]
    /\ pc' = [ pc EXCEPT ![p] = "emitir_finally" ]
    /\ UNCHANGED <<detalles, cortes, rowLock, resp, nreq>>
    /\ UNCHANGED TablasAlumnos

\* Phase 4: the guarded write-back of the artifact reference.
EmitirRuta(p) ==
    /\ pc[p] = "emitir_ruta"
    /\ rowLock[loc[p].id] = 0
    /\ LET r == loc[p].id
       IN \E falla \in BOOLEAN :
            IF falla
            THEN /\ recibos' = recibos
                 /\ pc' = [ pc EXCEPT ![p] = "emitir_catch" ]
                 /\ loc' = [ loc EXCEPT ![p].error = "db" ]
            ELSE IF EmitirRutaWhere(recibos[r])
            THEN /\ recibos' = [ recibos EXCEPT ![r] = EmitirRutaUpdate(@, loc[p].ruta) ]
                 /\ pc' = [ pc EXCEPT ![p] = "emitir_finally" ]
                 /\ loc' = loc
            ELSE /\ recibos' = recibos
                 /\ pc' = [ pc EXCEPT ![p] = "emitir_catch" ]
                 /\ loc' = [ loc EXCEPT ![p].error = "cambio_estado" ]
    /\ UNCHANGED <<detalles, cortes, gcs, rowLock, resp, nreq>>
    /\ UNCHANGED TablasAlumnos

EmitirCatch(p) ==
    /\ pc[p] = "emitir_catch"
    /\ rowLock[loc[p].id] = 0
    /\ recibos' = [ recibos EXCEPT ![loc[p].id] = EmitirCatchUpdate(@) ]
    /\ pc' = [ pc EXCEPT ![p] = "emitir_finally" ]
    /\ UNCHANGED <<detalles, cortes, gcs, rowLock, loc, resp, nreq>>
    /\ UNCHANGED TablasAlumnos

EmitirFinally(p) ==
    /\ pc[p] = "emitir_finally"
    /\ rowLock[loc[p].id] = 0
    /\ recibos' = [ recibos EXCEPT ![loc[p].id].enimpresion = FALSE ]
    /\ Termina(p)
    /\ UNCHANGED <<detalles, cortes, gcs, rowLock, nreq>>
    /\ UNCHANGED TablasAlumnos


(* ------------------------------------------------------------------ *)
(* POST /cancelar-recibo                                               *)
(* ------------------------------------------------------------------ *)
\* Mutant: the admission forgets the cancellation-request flag.
CancelarAdmision_SinSolicitud(row) ==
    /\ row.status_recibo = "Emitido"
    /\ row.generando_pdf = FALSE

\* Mutant: the admission forgets the status filter.
CancelarAdmision_SinStatus(row) ==
    /\ row.solicita_cancelacion = TRUE
    /\ row.generando_pdf = FALSE

\* WHERE clause of the locking read.
CancelarAdmision(row) ==
    /\ row.solicita_cancelacion = TRUE
    /\ row.status_recibo = "Emitido"
    /\ row.generando_pdf = FALSE

\* Mutant: the status flip also unlinks the receipt from its bucket.
CancelarUpdate_DesligaCorte(row) ==
    [ row EXCEPT !.status_recibo = "Cancelado",
                 !.encorte = NULL_REF,
                 !.fecha_cancelacion = "NOW",
                 !.solicita_cancelacion = FALSE,
                 !.generando_pdf = TRUE ]

\* SET clause of the status flip.
CancelarUpdate(row) ==
    [ row EXCEPT !.status_recibo = "Cancelado",
                 !.fecha_cancelacion = "NOW",
                 !.solicita_cancelacion = FALSE,
                 !.generando_pdf = TRUE ]

\* Mutant: the cancelled document always goes to the path of the id.
CancelarPath_SiempreFallback(row, r) == getReciboPdfPath(ToString(r))

\* Path the cancelled document is uploaded to.
CancelarPath(row, r) ==
    IF row.ruta_pdf # NULL_REF
    THEN IF TienePrefijoGs(row.ruta_pdf)
         THEN SinPrefijoGs(row.ruta_pdf)
         ELSE getReciboPdfPath(ToString(r))
    ELSE getReciboPdfPath(ToString(r))

\* WHERE clause of the write-back: id_recibo = ? alone.
CancelarRutaWhere(row) == TRUE

CancelarRutaUpdate(row, ruta) ==
    [ row EXCEPT !.ruta_pdf = ruta, !.generando_pdf = FALSE ]

\* Mutant: the finally clears the request flag and forgets the lock.
CancelarFinallyUpdate_SoloSolicitud(row) ==
    [ row EXCEPT !.solicita_cancelacion = FALSE ]

\* finally: UPDATE ... SET generando_pdf = FALSE, solicita_cancelacion = FALSE
CancelarFinallyUpdate(row) ==
    [ row EXCEPT !.generando_pdf = FALSE, !.solicita_cancelacion = FALSE ]

CancelarBegin(p, r) ==
    /\ Recibe(p, "cancelar", r)
    /\ rowLock[r] = 0
    /\ IF CancelarAdmision(recibos[r])
       THEN /\ rowLock' = [ rowLock EXCEPT ![r] = p ]
            /\ pc' = [ pc EXCEPT ![p] = "cancelar_tx" ]
            /\ loc' = [ loc EXCEPT ![p] = LocDe("cancelar", r) ]
       ELSE /\ rowLock' = rowLock
            /\ pc' = [ pc EXCEPT ![p] = "cancelar_finally" ]
            /\ loc' = [ loc EXCEPT ![p] =
                          [ LocDe("cancelar", r) EXCEPT !.error = "no_valido" ] ]
    /\ UNCHANGED <<recibos, detalles, cortes, gcs>>
    /\ UNCHANGED TablasAlumnos

CancelarCommit(p) ==
    /\ pc[p] = "cancelar_tx"
    /\ LET r     == loc[p].id
           recs2 == [ recibos EXCEPT ![r] = CancelarUpdate(@) ]
       IN /\ rowLock' = [ rowLock EXCEPT ![r] = 0 ]
          /\ recibos' = recs2
          /\ cortes' = IF recibos[r].encorte # NULL_REF
                       THEN CortesTras(cortes, recs2, recibos[r].encorte)
                       ELSE cortes
    /\ pc' = [ pc EXCEPT ![p] = "cancelar_pdf" ]
    /\ UNCHANGED <<detalles, gcs, loc, resp, nreq>>
    /\ UNCHANGED TablasAlumnos

\* Phase 2: hydrated read, render, path resolution, delete and upload succeed.
CancelarPdf(p) ==
    /\ pc[p] = "cancelar_pdf"
    /\ LET r    == loc[p].id
           path == CancelarPath(recibos[r], r)
       IN /\ recibos[r].status_recibo = "Cancelado"
          /\ DetallesDe(detalles, r) # {}
          /\ gcs' = [ gcs EXCEPT ![path] = recibos[r].status_recibo ]
          /\ loc' = [ loc EXCEPT ![p].ruta = RutaGs(path) ]
    /\ pc' = [ pc EXCEPT ![p] = "cancelar_ruta" ]
    /\ UNCHANGED <<recibos, detalles, cortes, rowLock, resp, nreq>>
    /\ UNCHANGED TablasAlumnos

\* Phase 2 throws: the reads, the renderer, or the upload after the delete.
CancelarPdfFalla(p) ==
    /\ pc[p] = "cancelar_pdf"
    /\ \E etapa \in { "render", "upload" } :
          gcs' = IF etapa = "upload"
                 THEN [ gcs EXCEPT ![CancelarPath(recibos[loc[p].id], loc[p].id)] = "none" ]
                 ELSE gcs
    /\ loc' = [ loc EXCEPT ![p].error = "pdf" ]
    /\ pc' = [ pc EXCEPT ![p] = "cancelar_finally" ]
    /\ UNCHANGED <<recibos, detalles, cortes, rowLock, resp, nreq>>
    /\ UNCHANGED TablasAlumnos

\* The write-back of the artifact reference.
CancelarRuta(p) ==
    /\ pc[p] = "cancelar_ruta"
    /\ rowLock[loc[p].id] = 0
    /\ LET r == loc[p].id
       IN \E falla \in BOOLEAN :
            IF falla
            THEN /\ recibos' = recibos
                 /\ loc' = [ loc EXCEPT ![p].error = "db" ]
            ELSE /\ recibos' = IF CancelarRutaWhere(recibos[r])
                               THEN [ recibos EXCEPT ![r] = CancelarRutaUpdate(@, loc[p].ruta) ]
                               ELSE recibos
                 /\ loc' = loc
    /\ pc' = [ pc EXCEPT ![p] = "cancelar_finally" ]
    /\ UNCHANGED <<detalles, cortes, gcs, rowLock, resp, nreq>>
    /\ UNCHANGED TablasAlumnos

CancelarFinally(p) ==
    /\ pc[p] = "cancelar_finally"
    /\ rowLock[loc[p].id] = 0
    /\ recibos' = [ recibos EXCEPT ![loc[p].id] = CancelarFinallyUpdate(@) ]
    /\ Termina(p)
    /\ UNCHANGED <<detalles, cortes, gcs, rowLock, nreq>>
    /\ UNCHANGED TablasAlumnos

(* ------------------------------------------------------------------ *)
(* POST /recibos/regenerar-pdf                                         *)
(* ------------------------------------------------------------------ *)
\* WHERE clause of the locking read.
\* Mutant: the locking read of the regeneration only looks at the lock.
RegenerarAdmision_SinStatus(row) ==
    row.generando_pdf = FALSE

RegenerarAdmision(row) ==
    /\ row.status_recibo \in { "Emitido", "Cancelado" }
    /\ row.generando_pdf = FALSE

\* Phase 1: the technical lock.
RegenerarLockUpdate(row) == [ row EXCEPT !.generando_pdf = TRUE ]

\* Phase 5  WHERE clause of the fallback write-back: id_recibo = ? alone.
RegenerarRutaWhere(row) == TRUE

\* Mutant: the fallback write-back stores nothing.
RegenerarRutaUpdate_SinRuta(row, ruta) == row

\* Phase 5  SET clause of the fallback write-back.
RegenerarRutaUpdate(row, ruta) == [ row EXCEPT !.ruta_pdf = ruta ]

\* finally: UPDATE recibos SET generando_pdf = FALSE WHERE id_recibo = ?
RegenerarFinallyUpdate(row) == [ row EXCEPT !.generando_pdf = FALSE ]

RegenerarBegin(p, r) ==
    /\ Recibe(p, "regenerar", r)
    /\ rowLock[r] = 0
    /\ IF RegenerarAdmision(recibos[r])
       THEN /\ rowLock' = [ rowLock EXCEPT ![r] = p ]
            /\ pc' = [ pc EXCEPT ![p] = "regenerar_tx" ]
            /\ loc' = [ loc EXCEPT ![p] =
                          [ LocDe("regenerar", r) EXCEPT !.rowRuta = recibos[r].ruta_pdf ] ]
       ELSE /\ rowLock' = rowLock
            /\ pc' = [ pc EXCEPT ![p] = "regenerar_finally" ]
            /\ loc' = [ loc EXCEPT ![p] =
                          [ LocDe("regenerar", r) EXCEPT !.error = "no_valido" ] ]
    /\ UNCHANGED <<recibos, detalles, cortes, gcs>>
    /\ UNCHANGED TablasAlumnos

RegenerarCommit(p) ==
    /\ pc[p] = "regenerar_tx"
    /\ rowLock' = [ rowLock EXCEPT ![loc[p].id] = 0 ]
    /\ recibos' = [ recibos EXCEPT ![loc[p].id] = RegenerarLockUpdate(@) ]
    /\ pc' = [ pc EXCEPT ![p] = "regenerar_pdf" ]
    /\ UNCHANGED <<detalles, cortes, gcs, loc, resp, nreq>>
    /\ UNCHANGED TablasAlumnos

\* Phases 2 - 4: path resolution from the row read under the lock, hydrated
\* read, render, delete and upload succeed.
RegenerarPdf(p) ==
    /\ pc[p] = "regenerar_pdf"
    /\ LET r    == loc[p].id
           path == IF loc[p].rowRuta # NULL_REF
                   THEN SinPrefijoGs(loc[p].rowRuta)
                   ELSE getReciboPdfPath(ToString(r))
       IN /\ loc[p].rowRuta # NULL_REF => TienePrefijoGs(loc[p].rowRuta)
          /\ recibos[r].status_recibo \in { "Emitido", "Cancelado" }
          /\ recibos[r].id_alumno # 0
          /\ recibos[r].fecha_emision # NULL
          /\ DetallesDe(detalles, r) # {}
          /\ gcs' = [ gcs EXCEPT ![path] = recibos[r].status_recibo ]
          /\ loc' = [ loc EXCEPT ![p].ruta = RutaGs(path) ]
          /\ pc' = [ pc EXCEPT ![p] = IF loc[p].rowRuta = NULL_REF
                                      THEN "regenerar_ruta"
                                      ELSE "regenerar_finally" ]
    /\ UNCHANGED <<recibos, detalles, cortes, rowLock, resp, nreq>>
    /\ UNCHANGED TablasAlumnos

\* Phases 2 - 4 throw.
RegenerarPdfFalla(p) ==
    /\ pc[p] = "regenerar_pdf"
    /\ \E etapa \in { "render", "upload" } :
          gcs' = IF etapa = "upload"
                 THEN [ gcs EXCEPT ![IF loc[p].rowRuta # NULL_REF
                                     THEN SinPrefijoGs(loc[p].rowRuta)
                                     ELSE getReciboPdfPath(ToString(loc[p].id))] = "none" ]
                 ELSE gcs
    /\ loc' = [ loc EXCEPT ![p].error = "pdf" ]
    /\ pc' = [ pc EXCEPT ![p] = "regenerar_finally" ]
    /\ UNCHANGED <<recibos, detalles, cortes, rowLock, resp, nreq>>
    /\ UNCHANGED TablasAlumnos

\* Phase 5: the fallback write-back of the artifact reference.
RegenerarRuta(p) ==
    /\ pc[p] = "regenerar_ruta"
    /\ rowLock[loc[p].id] = 0
    /\ LET r == loc[p].id
       IN \E falla \in BOOLEAN :
            IF falla
            THEN /\ recibos' = recibos
                 /\ pc' = [ pc EXCEPT ![p] = "regenerar_finally" ]
                 /\ loc' = [ loc EXCEPT ![p].error = "db" ]
            ELSE /\ recibos' = IF RegenerarRutaWhere(recibos[r])
                               THEN [ recibos EXCEPT ![r] = RegenerarRutaUpdate(@, loc[p].ruta) ]
                               ELSE recibos
                 /\ pc' = [ pc EXCEPT ![p] = IF RegenerarRutaWhere(recibos[r])
                                             THEN "regenerar_verif"
                                             ELSE "regenerar_finally" ]
                 /\ loc' = IF RegenerarRutaWhere(recibos[r])
                           THEN loc
                           ELSE [ loc EXCEPT ![p].error = "critico_fallback" ]
    /\ UNCHANGED <<detalles, cortes, gcs, rowLock, resp, nreq>>
    /\ UNCHANGED TablasAlumnos

\* Phase 5: the read that verifies the stored reference.
RegenerarVerif(p) ==
    /\ pc[p] = "regenerar_verif"
    /\ loc' = IF recibos[loc[p].id].ruta_pdf # loc[p].ruta
              THEN [ loc EXCEPT ![p].error = "inconsistencia" ]
              ELSE loc
    /\ pc' = [ pc EXCEPT ![p] = "regenerar_finally" ]
    /\ UNCHANGED <<recibos, detalles, cortes, gcs, rowLock, resp, nreq>>
    /\ UNCHANGED TablasAlumnos

RegenerarFinally(p) ==
    /\ pc[p] = "regenerar_finally"
    /\ rowLock[loc[p].id] = 0
    /\ recibos' = [ recibos EXCEPT ![loc[p].id] = RegenerarFinallyUpdate(@) ]
    /\ Termina(p)
    /\ UNCHANGED <<detalles, cortes, gcs, rowLock, nreq>>
    /\ UNCHANGED TablasAlumnos

(* ------------------------------------------------------------------ *)
(* POST /cortes/generar-pdf                                            *)
(* ------------------------------------------------------------------ *)
getCortePdfPath(nombre) == << "cortes", nombre >>

\* Phase 4: UPDATE cortes SET ruta_pdf = ?, enimpresion = FALSE WHERE id_corte = ?
CortePdfRutaUpdate(cs, c, ruta) ==
    IF c \in DOMAIN cs
    THEN [ cs EXCEPT ![c].ruta_pdf = ruta, ![c].enimpresion = FALSE ]
    ELSE cs

\* Phase 1: the transaction that calls the stored procedure and then reads
\* the row FOR UPDATE; it rolls back when the row does not exist.
CortePdfTx(p, c) ==
    /\ Recibe(p, "corte_pdf", 0)
    /\ LET cs2 == CortesTras(cortes, recibos, c)
       IN IF c \in DOMAIN cs2
          THEN /\ cortes' = cs2
               /\ pc' = [ pc EXCEPT ![p] = "corte_pdf" ]
               /\ loc' = [ loc EXCEPT ![p] = [ LocDe("corte_pdf", 0) EXCEPT !.corteId = c ] ]
          ELSE /\ cortes' = cortes
               /\ pc' = [ pc EXCEPT ![p] = "corte_fin" ]
               /\ loc' = [ loc EXCEPT ![p] = [ LocDe("corte_pdf", 0) EXCEPT
                                                !.corteId = c, !.error = "no_encontrado" ] ]
    /\ UNCHANGED <<recibos, detalles, gcs, rowLock>>
    /\ UNCHANGED TablasAlumnos

\* The payment methods that have a column in the receipt-count matrix.
FormasMatriz == { "Tarjeta", "Transferencia", "Efectivo" }

\* COUNT(*) of the group (status, forma) of the receipts linked to bucket c.
CantidadGrupo(recs, c, status, forma) ==
    Cardinality({ r \in Recibos : /\ recs[r].encorte = c
                                   /\ recs[r].status_recibo = status
                                   /\ recs[r].forma_pago = forma })

\* The row of the matrix for one status: a cell is filled, and added to
\* the row total, only for a group whose payment method has a column.
FilaMatriz(recs, c, status) ==
    LET formas == { recs[r].forma_pago :
                      r \in { x \in Recibos : /\ recs[x].encorte = c
                                               /\ recs[x].status_recibo = status } }
        conColumna == formas \cap FormasMatriz
    IN [ Tarjeta       |-> IF "Tarjeta" \in conColumna
                           THEN CantidadGrupo(recs, c, status, "Tarjeta") ELSE 0,
         Transferencia |-> IF "Transferencia" \in conColumna
                           THEN CantidadGrupo(recs, c, status, "Transferencia") ELSE 0,
         Efectivo      |-> IF "Efectivo" \in conColumna
                           THEN CantidadGrupo(recs, c, status, "Efectivo") ELSE 0,
         total_fila    |-> SumaSobre(conColumna,
                                     [ f \in conColumna |-> CantidadGrupo(recs, c, status, f) ]) ]

\* getCorteHydrated: null when the bucket has no row, else the matrix of
\* receipt counts, its column totals and its global total.
getCorteHydrated(recs, cs, c) ==
    IF c \notin DOMAIN cs
    THEN NULL_REF
    ELSE LET matrix == [ Emitido   |-> FilaMatriz(recs, c, "Emitido"),
                         Cancelado |-> FilaMatriz(recs, c, "Cancelado") ]
             totalesColumnas ==
                 [ Tarjeta       |-> matrix.Emitido.Tarjeta + matrix.Cancelado.Tarjeta,
                   Transferencia |-> matrix.Emitido.Transferencia
                                     + matrix.Cancelado.Transferencia,
                   Efectivo      |-> matrix.Emitido.Efectivo + matrix.Cancelado.Efectivo ]
         IN [ recibos_matrix       |-> matrix,
              totales_columnas     |-> totalesColumnas,
              total_global_recibos |-> totalesColumnas.Tarjeta
                                       + totalesColumnas.Transferencia
                                       + totalesColumnas.Efectivo ]

\* Phases 2 - 3: hydrated read, render, delete and upload succeed.
CortePdf(p) ==
    /\ pc[p] = "corte_pdf"
    /\ loc[p].corteId \in DOMAIN cortes
    /\ LET path == getCortePdfPath(ToString(loc[p].corteId))
       IN /\ gcs' = [ gcs EXCEPT ![path] = "corte" ]
          /\ loc' = [ loc EXCEPT ![p].ruta = RutaGs(path),
                                 ![p].matriz = getCorteHydrated(recibos, cortes,
                                                                loc[p].corteId) ]
    /\ pc' = [ pc EXCEPT ![p] = "corte_ruta" ]
    /\ UNCHANGED <<recibos, detalles, cortes, rowLock, resp, nreq>>
    /\ UNCHANGED TablasAlumnos

\* Phases 2 - 3 throw (the upload after the old artifact was deleted).
CortePdfFalla(p) ==
    /\ pc[p] = "corte_pdf"
    /\ \E etapa \in { "render", "upload" } :
          gcs' = IF etapa = "upload"
                 THEN [ gcs EXCEPT ![getCortePdfPath(ToString(loc[p].corteId))] = "none" ]
                 ELSE gcs
    /\ loc' = [ loc EXCEPT ![p].error = "pdf" ]
    /\ pc' = [ pc EXCEPT ![p] = "corte_fin" ]
    /\ UNCHANGED <<recibos, detalles, cortes, rowLock, resp, nreq>>
    /\ UNCHANGED TablasAlumnos

\* Phase 4: the reference is stored on the bucket.
CortePdfRuta(p) ==
    /\ pc[p] = "corte_ruta"
    /\ \E falla \in BOOLEAN :
          IF falla
          THEN /\ cortes' = cortes
               /\ loc' = [ loc EXCEPT ![p].error = "db" ]
          ELSE /\ cortes' = CortePdfRutaUpdate(cortes, loc[p].corteId, loc[p].ruta)
               /\ loc' = loc
    /\ pc' = [ pc EXCEPT ![p] = "corte_fin" ]
    /\ UNCHANGED <<recibos, detalles, gcs, rowLock, resp, nreq>>
    /\ UNCHANGED TablasAlumnos

\* res.json({ ok: true, ruta_pdf }) or next(error).
CortePdfFin(p) ==
    /\ pc[p] = "corte_fin"
    /\ Termina(p)
    /\ UNCHANGED <<recibos, detalles, cortes, gcs, rowLock, nreq>>
    /\ UNCHANGED TablasAlumnos

(* ------------------------------------------------------------------ *)
(* Environment                                                         *)
(* ------------------------------------------------------------------ *)
\* The external approval step sets the cancellation-request flag of a
\* receipt; the engine does not control which receipts it picks.
SolicitarCancelacion(r) ==
    /\ rowLock[r] = 0
    /\ recibos[r].solicita_cancelacion = FALSE
    /\ recibos' = [ recibos EXCEPT ![r].solicita_cancelacion = TRUE ]
    /\ UNCHANGED <<detalles, cortes, gcs, rowLock, pc, loc, resp, nreq>>
    /\ UNCHANGED TablasAlumnos

(* ------------------------------------------------------------------ *)
(* Specification                                                       *)
(* ------------------------------------------------------------------ *)
Next ==
    \/ \E p \in Procs, r \in Recibos : CalcularBegin(p, r)
    \/ \E p \in Procs : CalcularCommit(p)
    \/ \E p \in Procs : CalcularCatch(p)
    \/ \E p \in Procs : CalcularFinally(p)
    \/ \E p \in Procs, r \in Recibos : EmitirBegin(p, r)
    \/ \E p \in Procs : EmitirCommit(p)
    \/ \E p \in Procs : EmitirPostCommit(p)
    \/ \E p \in Procs : EmitirPdf(p)
    \/ \E p \in Procs : EmitirPdfFalla(p)
    \/ \E p \in Procs : EmitirRuta(p)
    \/ \E p \in Procs : EmitirCatch(p)
    \/ \E p \in Procs : EmitirFinally(p)
    \/ \E p \in Procs, r \in Recibos : CancelarBegin(p, r)
    \/ \E p \in Procs : CancelarCommit(p)
    \/ \E p \in Procs : CancelarPdf(p)
    \/ \E p \in Procs : CancelarPdfFalla(p)
    \/ \E p \in Procs : CancelarRuta(p)
    \/ \E p \in Procs : CancelarFinally(p)
    \/ \E p \in Procs, r \in Recibos : RegenerarBegin(p, r)
    \/ \E p \in Procs : RegenerarCommit(p)
    \/ \E p \in Procs : RegenerarPdf(p)
    \/ \E p \in Procs : RegenerarPdfFalla(p)
    \/ \E p \in Procs : RegenerarRuta(p)
    \/ \E p \in Procs : RegenerarVerif(p)
    \/ \E p \in Procs : RegenerarFinally(p)
    \/ \E r \in Recibos : SolicitarCancelacion(r)

Spec == Init /\ [][Next]_vars


(* ------------------------------------------------------------------ *)
(* Pricing under every intake: Compute requests alone                  *)
(* ------------------------------------------------------------------ *)
EntradasPrecio ==
    { e \in Entradas : /\ e.usuario2 = 1
                       /\ e.alumno2 # 0
                       /\ e.plantel2 = 1
                       /\ e.total2 >= 0 }

InitPrecio ==
    /\ \E e \in EntradasPrecio :
          /\ recibos = [ r \in Recibos |-> ReciboDe(e, r) ]
          /\ detalles = [ d \in Detalles |-> DetalleDe(e, d) ]
    /\ cortes = [ c \in {} |-> 0 ]
    /\ gcs = [ path \in Paths |-> "none" ]
    /\ rowLock = [ r \in Recibos |-> 0 ]
    /\ pc = [ p \in Procs |-> "idle" ]
    /\ loc = [ p \in Procs |-> LocIdle ]
    /\ resp = [ p \in Procs |-> RespNone ]
    /\ nreq = 0
    /\ alumnos = [ a \in Alumnos |-> AlumnoInicial(a) ]
    /\ alumnos_mensuales = MensualesBeca
    /\ alumnos_cargos = {}

NextPrecio ==
    \/ \E p \in Procs, r \in Recibos : CalcularBegin(p, r)
    \/ \E p \in Procs : CalcularCommit(p)
    \/ \E p \in Procs : CalcularCatch(p)
    \/ \E p \in Procs : CalcularFinally(p)

SpecPrecio == InitPrecio /\ [][NextPrecio]_vars

(* ------------------------------------------------------------------ *)
(* The lifecycle under every intake, one request at a time             *)
(* ------------------------------------------------------------------ *)
\* Number of the data the Issue validation asks for that row e lacks.
Defectos(e) ==
    (IF e.fecha2 = 0 THEN 1 ELSE 0) + (IF e.alumno2 = 0 THEN 1 ELSE 0)
    + (IF e.plantel2 = 0 THEN 1 ELSE 0) + (IF e.total2 < 0 THEN 1 ELSE 0)

\* Complete rows of both cashiers and both dates, and rows with one defect.
EntradasDatos ==
    { e \in Entradas : /\ e.alumno2 # 2
                       /\ e.forma2 = "Tarjeta"
                       /\ e.periodo2 = <<2, 2024>>
                       /\ e.periodo3 = <<0, 0>>
                       /\ e.ajuste3 = 0 - 20
                       /\ \/ Defectos(e) = 0
                          \/ /\ Defectos(e) = 1
                             /\ e.usuario2 = 1
                             /\ e.fecha2 # 20231220 }

\* The bucket ids a caller can name.
CorteIdsDatos ==
    { generateCorteId(ReciboDe(e, r)) : e \in EntradasDatos, r \in Recibos }

InitDatos ==
    /\ \E e \in EntradasDatos :
          /\ recibos = [ r \in Recibos |-> ReciboDe(e, r) ]
          /\ detalles = [ d \in Detalles |-> DetalleDe(e, d) ]
    /\ cortes = [ c \in {} |-> 0 ]
    /\ gcs = [ path \in Paths \cup { getCortePdfPath(ToString(c)) : c \in CorteIdsDatos }
                |-> "none" ]
    /\ rowLock = [ r \in Recibos |-> 0 ]
    /\ pc = [ p \in Procs |-> "idle" ]
    /\ loc = [ p \in Procs |-> LocIdle ]
    /\ resp = [ p \in Procs |-> RespNone ]
    /\ nreq = 0
    /\ alumnos = [ a \in Alumnos |-> AlumnoInicial(a) ]
    /\ alumnos_mensuales = MensualesBeca
    /\ alumnos_cargos = {}

NextDatos ==
    \/ \E r \in Recibos : CalcularBegin(1, r)
    \/ CalcularCommit(1)
    \/ CalcularCatch(1)
    \/ CalcularFinally(1)
    \/ \E r \in Recibos : EmitirBegin(1, r)
    \/ EmitirCommit(1)
    \/ EmitirPostCommit(1)
    \/ EmitirPdf(1)
    \/ EmitirPdfFalla(1)
    \/ EmitirRuta(1)
    \/ EmitirCatch(1)
    \/ EmitirFinally(1)
    \/ \E r \in Recibos : CancelarBegin(1, r)
    \/ CancelarCommit(1)
    \/ CancelarPdf(1)
    \/ CancelarPdfFalla(1)
    \/ CancelarRuta(1)
    \/ CancelarFinally(1)
    \/ \E c \in CorteIdsDatos : CortePdfTx(1, c)
    \/ CortePdf(1)
    \/ CortePdfFalla(1)
    \/ CortePdfRuta(1)
    \/ CortePdfFin(1)
    \/ \E r \in Recibos : SolicitarCancelacion(r)

SpecDatos == InitDatos /\ [][NextDatos]_vars

(* ------------------------------------------------------------------ *)
(* Properties                                                          *)
(* ------------------------------------------------------------------ *)
\* Process p takes the step pc -> pc' of its handler.
Paso(p, desde, hasta) == pc[p] = desde /\ pc'[p] = hasta

\* A request of kind o for receipt r arrives at p in this step.
Llega(p, o, r) == pc[p] = "idle" /\ pc'[p] # "idle" /\ loc'[p].op = o /\ loc'[p].id = r

\* C1: the persisted status of a receipt changes only from Borrador to
\* Emitido, in the commit of an Issue, or from Emitido to Cancelado, in the
\* commit of a Cancel; no step moves Borrador to Cancelado, changes a
\* Cancelado receipt or returns a receipt to Borrador.
C1_TransicionesLegales ==
    [][ \A r \in Recibos :
          recibos'[r].status_recibo # recibos[r].status_recibo =>
            \/ /\ recibos[r].status_recibo = "Borrador"
               /\ recibos'[r].status_recibo = "Emitido"
               /\ \E p \in Procs : loc[p].id = r /\ Paso(p, "emitir_tx", "emitir_postcommit")
            \/ /\ recibos[r].status_recibo = "Emitido"
               /\ recibos'[r].status_recibo = "Cancelado"
               /\ \E p \in Procs : loc[p].id = r /\ Paso(p, "cancelar_tx", "cancelar_pdf") ]_vars

\* A receipt went through both transitions while requests of every kind
\* were received.
C1_Witness ==
    \E r \in Recibos :
        /\ recibos[r].status_recibo = "Cancelado"
        /\ recibos[r].fecha_emision # NULL
        /\ recibos[r].fecha_cancelacion # NULL

\* The student of Draft receipt r has an Issued receipt with an Issued
\* Monthly line for the (product, month, year) of a Monthly line of r.
C3_YaFacturado(r) ==
    \E d1 \in Detalles, d2 \in Detalles :
        /\ detalles[d1].id_recibo = r
        /\ detalles[d1].frecuencia_producto = "Mensual"
        /\ detalles[d2].id_recibo # r
        /\ detalles[d2].frecuencia_producto = "Mensual"
        /\ detalles[d2].status_detalle = "Emitido"
        /\ recibos[detalles[d2].id_recibo].status_recibo = "Emitido"
        /\ recibos[detalles[d2].id_recibo].id_alumno = recibos[r].id_alumno
        /\ detalles[d2].id_producto = detalles[d1].id_producto
        /\ detalles[d2].mes = detalles[d1].mes
        /\ detalles[d2].anio = detalles[d1].anio

\* C3: an Issue request for a Draft receipt whose student already has an
\* Issued receipt holding an Issued Monthly line with the product, month and
\* year of one of its Monthly lines is rejected without opening the write
\* phase, and the receipt is still Draft when that request ends.
C3_DuplicadoRechazado ==
    [][ \A p \in Procs, r \in Recibos :
          /\ ( Llega(p, "emitir", r) /\ recibos[r].status_recibo = "Borrador"
               /\ C3_YaFacturado(r) )
             => ( /\ pc'[p] = "emitir_catch"
                  /\ loc'[p].error # NULL
                  /\ rowLock'[r] = 0
                  /\ recibos' = recibos /\ detalles' = detalles /\ cortes' = cortes )
          /\ ( loc[p].op = "emitir" /\ loc[p].id = r /\ loc[p].error = "duplicado"
               /\ pc'[p] # pc[p] )
             => ( /\ recibos'[r].status_recibo = recibos[r].status_recibo
                  /\ recibos'[r].encorte = recibos[r].encorte
                  /\ detalles' = detalles ) ]_vars

\* An Issue was rejected by the duplicate guard: the other receipt of the
\* student is Issued and the rejected one is still Draft.
C3_Witness ==
    \E p \in Procs :
        /\ pc[p] = "emitir_finally"
        /\ loc[p].error = "duplicado"
        /\ recibos[loc[p].id].status_recibo = "Borrador"
        /\ \E r \in Recibos \ {loc[p].id} : recibos[r].status_recibo = "Emitido"


\* Both processes have finished an Issue request for the same receipt.
C2_DosEmisiones(r) ==
    /\ \A p \in Procs : pc[p] = "idle" /\ resp[p].op = "emitir" /\ resp[p].id = r
    /\ \E p \in Procs, q \in Procs : p # q

\* C2: when two Issue requests for the same Draft receipt have both ended
\* and the receipt was issued (no statement failed in the database), exactly
\* one of them answered ok, every other one answered with the conflict
\* "not found / not Draft / being processed", and the receipt is linked to
\* exactly one bucket.
C2_ExactamenteUnaEmision ==
    \A r \in Recibos :
        ( /\ C2_DosEmisiones(r)
          /\ recibos[r].status_recibo = "Emitido"
          /\ \A p \in Procs : resp[p].error # "db" )
        => /\ Cardinality({ p \in Procs : resp[p].ok }) = 1
           /\ \A p \in Procs : ~resp[p].ok => resp[p].error = "no_encontrado"
           /\ Cardinality({ c \in DOMAIN cortes : recibos[r].encorte = c }) = 1

\* C4: no two Issued receipts of one student both hold an Issued Monthly
\* line for the same product, month and year.
C4_SinDobleCobro ==
    \A d1 \in Detalles, d2 \in Detalles :
        ( /\ detalles[d1].id_recibo # detalles[d2].id_recibo
          /\ recibos[detalles[d1].id_recibo].status_recibo = "Emitido"
          /\ recibos[detalles[d2].id_recibo].status_recibo = "Emitido"
          /\ recibos[detalles[d1].id_recibo].id_alumno
               = recibos[detalles[d2].id_recibo].id_alumno
          /\ detalles[d1].frecuencia_producto = "Mensual"
          /\ detalles[d2].frecuencia_producto = "Mensual"
          /\ detalles[d1].status_detalle = "Emitido"
          /\ detalles[d2].status_detalle = "Emitido" )
        => ~ ( /\ detalles[d1].id_producto = detalles[d2].id_producto
               /\ detalles[d1].mes = detalles[d2].mes
               /\ detalles[d1].anio = detalles[d2].anio )


\* Positions of the Issue handler after its transaction committed.
EmitirTrasCommit == { "emitir_postcommit", "emitir_pdf", "emitir_ruta" }

\* Process p runs the Issue handler for r after its transaction committed.
C5_Emitio(p, r) ==
    /\ loc[p].op = "emitir"
    /\ loc[p].id = r
    /\ \/ pc[p] \in EmitirTrasCommit
       \/ pc[p] \in { "emitir_catch", "emitir_finally" } /\ loc[p].corteId # NULL_REF

\* C5: once the Issue transaction of a request has committed, no later step
\* of that request (post-commit check, render or upload failure, guarded
\* write-back, cleanup) changes the receipt's status, bucket, issued-at or
\* total, nor any line item.
C5_EmisionNoSeRevierte ==
    [][ \A p \in Procs, r \in Recibos :
          ( C5_Emitio(p, r) /\ pc'[p] # pc[p] )
          => /\ recibos'[r].status_recibo = recibos[r].status_recibo
             /\ recibos'[r].encorte = recibos[r].encorte
             /\ recibos'[r].fecha_emision = recibos[r].fecha_emision
             /\ recibos'[r].total_recibo = recibos[r].total_recibo
             /\ detalles' = detalles
             /\ cortes' = cortes ]_vars

\* An Issue request that committed ended in an error (failed write-back or
\* post-commit check) and the receipt is Issued, in its bucket, lines Issued.
C5_Witness ==
    \E p \in Procs :
        /\ resp[p].op = "emitir"
        /\ resp[p].error \in { "cambio_estado", "db", "critico_postcommit" }
        /\ recibos[resp[p].id].status_recibo = "Emitido"
        /\ recibos[resp[p].id].encorte # NULL_REF
        /\ \A d \in DetallesDe(detalles, resp[p].id) : detalles[d].status_detalle = "Emitido"

\* C6: when the document phase of an Issue that committed throws, the catch
\* clears the generating-document lock and leaves the status as it is, the
\* handler goes on to its success response, and that response is ok with a
\* warning and a null artifact reference.
C6_FallaPdfEsAdvertencia ==
    [][ \A p \in Procs :
          /\ ( pc[p] = "emitir_pdf" /\ pc'[p] \notin { "emitir_pdf", "emitir_ruta" } )
             => /\ pc'[p] = "emitir_finally"
                /\ loc'[p].warning /\ loc'[p].error = NULL /\ loc'[p].ruta = NULL_REF
                /\ recibos'[loc[p].id].generando_pdf = FALSE
                /\ recibos'[loc[p].id].status_recibo = recibos[loc[p].id].status_recibo
          /\ ( pc[p] = "emitir_finally" /\ loc[p].warning /\ pc'[p] # pc[p] )
             => /\ resp'[p].ok /\ resp'[p].warning /\ resp'[p].ruta_pdf = NULL_REF
                /\ recibos'[loc[p].id].status_recibo = recibos[loc[p].id].status_recibo ]_vars

\* An Issue answered ok with a warning and no reference; the receipt is
\* Issued and unlocked.
C6_Witness ==
    \E p \in Procs :
        /\ resp[p].op = "emitir" /\ resp[p].ok /\ resp[p].warning
        /\ resp[p].ruta_pdf = NULL_REF
        /\ recibos[resp[p].id].status_recibo = "Emitido"
        /\ recibos[resp[p].id].generando_pdf = FALSE
        /\ recibos[resp[p].id].ruta_pdf = NULL_REF

\* C7: a Cancel request for an Issued receipt whose cancellation-request
\* flag is not set is rejected and changes nothing; the status becomes
\* Cancelado only in the commit of a Cancel whose receipt has the flag set,
\* is Emitido and has the generating-document lock clear.
C7_CancelarRequiereSolicitud ==
    [][ \A p \in Procs, r \in Recibos :
          /\ ( Llega(p, "cancelar", r) /\ recibos[r].status_recibo = "Emitido"
               /\ recibos[r].solicita_cancelacion = FALSE )
             => ( /\ pc'[p] = "cancelar_finally" /\ loc'[p].error # NULL
                  /\ rowLock'[r] = 0
                  /\ recibos' = recibos /\ detalles' = detalles /\ cortes' = cortes )
          /\ ( loc[p].op = "cancelar" /\ loc[p].id = r /\ loc[p].error = "no_valido"
               /\ pc'[p] # pc[p] )
             => recibos'[r].status_recibo = recibos[r].status_recibo
          /\ ( recibos[r].status_recibo # "Cancelado" /\ recibos'[r].status_recibo = "Cancelado" )
             => /\ recibos[r].solicita_cancelacion = TRUE
                /\ recibos[r].status_recibo = "Emitido"
                /\ recibos[r].generando_pdf = FALSE ]_vars

\* A Cancel of an Issued receipt without the flag was rejected, and another
\* receipt was cancelled.
C7_Witness ==
    /\ \E p \in Procs :
          /\ resp[p].op = "cancelar" /\ resp[p].error = "no_valido"
          /\ recibos[resp[p].id].status_recibo = "Emitido"
          /\ recibos[resp[p].id].solicita_cancelacion = FALSE
    /\ \E r \in Recibos : recibos[r].status_recibo # "Borrador"

\* Positions from which the handler of a request still runs a statement
\* that clears the generating-document lock.
LiberaDespues ==
    { "emitir_postcommit", "emitir_pdf", "emitir_ruta", "emitir_catch",
      "cancelar_pdf", "cancelar_ruta", "cancelar_finally",
      "regenerar_pdf", "regenerar_ruta", "regenerar_verif", "regenerar_finally" }

\* C8: whenever the generating-document lock of a receipt is set, a request
\* for that receipt is still running and has its lock-clearing statement
\* ahead; hence once the requests have ended (by success, rejection, or a
\* failure of rendering, upload or write-back) no receipt is locked.
C8_LockSiempreSeLibera ==
    \A r \in Recibos :
        recibos[r].generando_pdf = TRUE
        => \E p \in Procs : loc[p].id = r /\ pc[p] \in LiberaDespues

\* No request is running, every receipt is unlocked, and the last requests
\* were a Cancel and a Regenerate whose document phase failed after the lock
\* was set.
C8_Witness ==
    /\ \A p \in Procs : pc[p] = "idle"
    /\ \A r \in Recibos : recibos[r].generando_pdf = FALSE
    /\ \E p \in Procs :
          /\ resp[p].op \in { "cancelar", "regenerar" }
          /\ resp[p].error \in { "pdf", "db" }


\* Positions between the commit that set the generating-document lock and
\* the statement of the same request that releases it.
EntreLockYLiberacion ==
    { "emitir_postcommit", "emitir_pdf", "emitir_ruta",
      "cancelar_pdf", "cancelar_ruta",
      "regenerar_pdf", "regenerar_ruta", "regenerar_verif" }

\* C9: for one receipt, at no time are two requests both between acquiring
\* the generating-document lock and releasing it.
C9_LockSerializa ==
    \A r \in Recibos :
        Cardinality({ p \in Procs : loc[p].id = r /\ pc[p] \in EntreLockYLiberacion }) <= 1

\* Status the operation expects of the receipt it writes the reference to.
C10_StatusEsperado(o) ==
    CASE o = "emitir"    -> { "Emitido" }
      [] o = "cancelar"  -> { "Cancelado" }
      [] o = "regenerar" -> { "Emitido", "Cancelado" }
      [] OTHER           -> { }

\* C10: whenever a request changes the stored artifact reference of a
\* receipt, the receipt had the generating-document lock set and was in the
\* status the operation expects just before the write.
C10_RutaSoloConGuarda ==
    [][ \A p \in Procs :
          ( pc[p] \in { "emitir_ruta", "cancelar_ruta", "regenerar_ruta" }
            /\ pc'[p] # pc[p]
            /\ recibos'[loc[p].id].ruta_pdf # recibos[loc[p].id].ruta_pdf )
          => /\ recibos[loc[p].id].generando_pdf = TRUE
             /\ recibos[loc[p].id].status_recibo \in C10_StatusEsperado(loc[p].op) ]_vars


(* ------------------------------------------------------------------ *)
(* Validation and pricing                                              *)
(* ------------------------------------------------------------------ *)
C11_SinLineasBorrador(r) ==
    /\ recibos[r].status_recibo = "Borrador"
    /\ \A d \in Detalles :
          ~(detalles[d].id_recibo = r /\ detalles[d].status_detalle = "Borrador")

\* C11: an Issue request for a Draft receipt that has no Draft line item is
\* rejected with an error, its arrival changes no receipt, line or bucket,
\* and for the rest of that request the receipt is Draft with no bucket
\* reference and no issued-at.
C11_EmitirSinLineasRechazado ==
    /\ [][ \A p \in Procs, r \in Recibos :
             ( /\ pc[p] = "idle"
               /\ pc'[p] # "idle"
               /\ loc'[p].op = "emitir"
               /\ loc'[p].id = r
               /\ C11_SinLineasBorrador(r) )
             => /\ pc'[p] = "emitir_catch"
                /\ loc'[p].error # NULL
                /\ recibos' = recibos
                /\ detalles' = detalles
                /\ cortes' = cortes ]_vars
    /\ [] ( \A p \in Procs :
              ( loc[p].op = "emitir" /\ loc[p].error = "sin_detalles" )
              => /\ recibos[loc[p].id].status_recibo = "Borrador"
                 /\ recibos[loc[p].id].encorte = NULL_REF
                 /\ recibos[loc[p].id].fecha_emision = NULL )
    /\ [][ \A p \in Procs :
             ( loc[p].op = "emitir" /\ loc[p].error = "sin_detalles" )
             => cortes' = cortes ]_vars

\* The Issue of receipt 2, which has no line, ended in the error of the
\* count check and the receipt is a Draft outside every bucket.
C11_Witness ==
    \E p \in Procs :
        /\ resp[p].op = "emitir"
        /\ resp[p].id = 2
        /\ resp[p].error = "sin_detalles"
        /\ C11_SinLineasBorrador(2)
        /\ recibos[2].encorte = NULL_REF
        /\ recibos[2].fecha_emision = NULL

C12_SinLineasBorrador(r) ==
    /\ recibos[r].status_recibo = "Borrador"
    /\ \A d \in Detalles :
          ~(detalles[d].id_recibo = r /\ detalles[d].status_detalle = "Borrador")

\* C12 as stated: the transaction of a Compute request for a Draft receipt
\* with no Draft line item commits, without an error, a total of 0.
C12_CalcularSinLineasDaCero ==
    [][ \A p \in Procs, r \in Recibos :
          ( /\ pc[p] = "calcular_tx"
            /\ pc'[p] # pc[p]
            /\ loc[p].id = r
            /\ C12_SinLineasBorrador(r) )
          => /\ pc'[p] = "calcular_finally"
             /\ loc'[p].error = NULL
             /\ recibos'[r].total_recibo = 0
             /\ detalles' = detalles ]_vars

\* C12, amended: the transaction of a Compute request for a Draft receipt
\* that has an operating date and no Draft line item commits, without an
\* error, a total of 0 and changes no line; the request is answered ok.
C12_CalcularConFechaSinLineasDaCero ==
    /\ [][ \A p \in Procs, r \in Recibos :
             ( /\ pc[p] = "calcular_tx"
               /\ pc'[p] # pc[p]
               /\ loc[p].id = r
               /\ recibos[r].fecha # 0
               /\ C12_SinLineasBorrador(r) )
             => /\ pc'[p] = "calcular_finally"
                /\ loc'[p].error = NULL
                /\ recibos'[r].total_recibo = 0
                /\ detalles' = detalles ]_vars
    /\ [][ \A p \in Procs, r \in Recibos :
             ( /\ pc[p] = "calcular_finally"
               /\ pc'[p] = "idle"
               /\ loc[p].id = r
               /\ loc[p].error = NULL )
             => /\ resp'[p].ok
                /\ recibos'[r].total_recibo = recibos[r].total_recibo ]_vars

\* A Compute of receipt 2, which has a date and no line, was answered ok
\* and the stored total is 0.
C12_Witness ==
    \E p \in Procs :
        /\ resp[p].op = "calcular"
        /\ resp[p].id = 2
        /\ resp[p].ok
        /\ recibos[2].fecha # 0
        /\ C12_SinLineasBorrador(2)
        /\ recibos[2].total_recibo = 0

(* ------------------------------------------------------------------ *)
(* Cash-cut buckets                                                    *)
(* ------------------------------------------------------------------ *)
C13_Clave(r) == << recibos[r].id_usuario, recibos[r].id_plantel, recibos[r].fecha >>

\* C13: the step that issues a receipt stores as its bucket reference the
\* id made of the receipt's own cashier, campus and operating date and
\* nothing else, and that bucket then exists; hence two receipts that were
\* issued are in the same bucket exactly when they agree on cashier, campus
\* and operating date, and a back-dated receipt is in the bucket of its
\* operating date.
C13_CorteDeLaFechaOperativa ==
    /\ [][ \A r \in Recibos :
             ( recibos[r].status_recibo = "Borrador"
               /\ recibos'[r].status_recibo = "Emitido" )
             => /\ recibos'[r].encorte = C13_Clave(r)
                /\ recibos'[r].encorte \in DOMAIN cortes' ]_vars
    /\ [] ( \A r1, r2 \in Recibos :
              ( recibos[r1].encorte # NULL_REF /\ recibos[r2].encorte # NULL_REF )
              => ( recibos[r1].encorte = recibos[r2].encorte
                   <=> C13_Clave(r1) = C13_Clave(r2) ) )

\* Receipt 2, dated 2023-12-20, was issued after receipt 1, dated
\* 2024-01-15, by the same cashier: it is in the bucket of 2023-12-20.
C13_Witness ==
    /\ recibos[1].status_recibo = "Emitido"
    /\ recibos[2].status_recibo = "Emitido"
    /\ recibos[2].id_usuario = recibos[1].id_usuario
    /\ recibos[2].fecha = 20231220
    /\ recibos[2].encorte = << recibos[2].id_usuario, recibos[2].id_plantel, 20231220 >>
    /\ recibos[1].encorte # recibos[2].encorte
    /\ { recibos[1].encorte, recibos[2].encorte } \subseteq DOMAIN cortes

\* The total of receipt r if it is an Issued receipt of bucket c paid by
\* forma, 0 otherwise.
C14_Aporta(r, c, forma) ==
    IF /\ recibos[r].encorte = c
       /\ recibos[r].status_recibo = "Emitido"
       /\ recibos[r].forma_pago = forma
    THEN recibos[r].total_recibo
    ELSE 0

C14_EmisionAbierta == \E p \in Procs : pc[p] = "emitir_tx"

C15_Totales(fila) ==
    << fila.total_efectivo, fila.total_tarjeta, fila.total_transferencia,
       fila.total, fila.gastos_efectivo, fila.total_efectivo_neto >>

PrecioCommit(p, r) ==
    /\ loc[p].id = r
    /\ \/ pc[p] = "calcular_tx" /\ pc'[p] = "calcular_finally"
       \/ pc[p] = "emitir_tx" /\ pc'[p] = "emitir_postcommit"

\* Line d is a Draft line of r before the step.
LineaBorrador(d, r) ==
    detalles[d].id_recibo = r /\ detalles[d].status_detalle = "Borrador"

\* base - discount - scholarship + surcharge + adjustment of a stored line,
\* in hundredths.
C16_Calculado(det) ==
    100 * det.precio_base - det.descuento - det.beca + det.recargo
    + 100 * det.monto_ajuste

\* C16: after a step that commits a pricing, every line it priced holds a
\* final price that is a whole, non-negative number of currency units: 0
\* when base - discount - scholarship + surcharge + adjustment is not
\* positive, and otherwise the least whole number not below it.
C16_PrecioFinalTechoNoNegativo ==
    [][ \A p \in Procs, r \in Recibos, d \in Detalles :
          ( PrecioCommit(p, r) /\ LineaBorrador(d, r) )
          => /\ detalles'[d].precio_final \in Nat
             /\ detalles'[d].precio_base = detalles[d].precio_base
             /\ detalles'[d].monto_ajuste = detalles[d].monto_ajuste
             /\ IF C16_Calculado(detalles'[d]) <= 0
                THEN detalles'[d].precio_final = 0
                ELSE /\ 100 * detalles'[d].precio_final >= C16_Calculado(detalles'[d])
                     /\ 100 * (detalles'[d].precio_final - 1) < C16_Calculado(detalles'[d]) ]_vars

\* Receipt 2 was computed: its Monthly line of base 1000 with one 10 %
\* discount rule, no surcharge, no scholarship and no adjustment holds
\* discount 100 and final price 900, and its other line, whose adjustment
\* exceeds its base, holds final price 0.
C16_Witness ==
    /\ \E p \in Procs : resp[p].op = "calcular" /\ resp[p].id = 2 /\ resp[p].ok
    /\ detalles[2].id_recibo = 2
    /\ detalles[2].precio_base = 1000
    /\ detalles[2].monto_ajuste = 0
    /\ detalles[2].descuento = 100 * 100
    /\ detalles[2].recargo = 0
    /\ detalles[2].beca = 0
    /\ detalles[2].precio_final = 900
    /\ detalles[3].id_recibo = 2
    /\ detalles[3].precio_base + detalles[3].monto_ajuste < 0
    /\ detalles[3].precio_final = 0
    /\ recibos[2].total_recibo = 900

\* Months since year 0 of the billing period of a line and of a date.
C17_MesesDeLinea(det) == 12 * det.anio + det.mes

C17_MesesDeFecha(fecha) == 12 * (fecha \div 10000) + ((fecha \div 100) % 100)

\* The case the line must get: Early when its period is strictly after the
\* month of the operating date, Late when strictly before, else Current.
C17_CasoEsperado(det, fecha) ==
    IF C17_MesesDeLinea(det) > C17_MesesDeFecha(fecha) THEN "Adelantado"
    ELSE IF C17_MesesDeLinea(det) < C17_MesesDeFecha(fecha) THEN "Vencido"
    ELSE "Corriente"

\* base x percentage summed over the rules in force for the line that list
\* the expected case.
C17_Importe(recibo, det, campo) ==
    LET S == { rp \in Reglas : /\ ReglaVigente(rp, recibo, det)
                               /\ C17_CasoEsperado(det, recibo.fecha) \in rp.casos }
    IN SumaSobre(S, [ rp \in S |-> det.precio_base * rp[campo] ])

\* C17: a step that commits a pricing prices every Monthly line that carries
\* a month and a year with the rules of exactly one temporal case: Early
\* when the line's (year, month) is strictly after the (year, month) of the
\* operating date, Late when it is strictly before, Current otherwise.
C17_CasoTemporal ==
    [][ \A p \in Procs, r \in Recibos, d \in Detalles :
          ( /\ PrecioCommit(p, r)
            /\ LineaBorrador(d, r)
            /\ detalles[d].frecuencia_producto = "Mensual"
            /\ detalles[d].mes # 0
            /\ detalles[d].anio # 0 )
          => /\ detalles'[d].descuento = C17_Importe(recibos[r], detalles[d], "pct_descuento")
             /\ detalles'[d].recargo = C17_Importe(recibos[r], detalles[d], "pct_recargo") ]_vars

\* Both receipts, dated 2024-01-15 and paid in cash, were computed: line 1,
\* billed for 2024-01, got the discounts of Current (15 %) and no surcharge;
\* line 2, billed for 2023-12, got the surcharge of Late (5 %) and no
\* discount.
C17_Witness ==
    /\ \A r \in Recibos :
          /\ recibos[r].fecha = 20240115
          /\ recibos[r].forma_pago = "Efectivo"
          /\ \E p \in Procs : resp[p].op = "calcular" /\ resp[p].id = r /\ resp[p].ok
    /\ detalles[1].mes = 1 /\ detalles[1].anio = 2024
    /\ detalles[1].descuento = 15 * 1000
    /\ detalles[1].recargo = 0
    /\ detalles[2].id_recibo = 2
    /\ detalles[2].mes = 12 /\ detalles[2].anio = 2023
    /\ detalles[2].descuento = 0
    /\ detalles[2].recargo = 5 * 1000

\* C18: a step that commits a pricing stores on every line it prices, as
\* discount, the sum of base x pct_descuento over the set of all rules that
\* match the line and, as surcharge, the sum of base x pct_recargo over the
\* same set: every matching rule counts once, on the base price, whatever
\* its priority and its place in the result of the query.
C18_ReglasAditivas ==
    [][ \A p \in Procs, r \in Recibos, d \in Detalles :
          ( PrecioCommit(p, r) /\ LineaBorrador(d, r) )
          => LET S == ReglasAplicables(recibos[r], detalles[d])
             IN /\ detalles'[d].descuento =
                      SumaSobre(S, [ rp \in S |-> detalles[d].precio_base * rp.pct_descuento ])
                /\ detalles'[d].recargo =
                      SumaSobre(S, [ rp \in S |-> detalles[d].precio_base * rp.pct_recargo ]) ]_vars

\* Receipt 1 was computed with two discount rules of priorities 1 and 3
\* matching its line of base 1000 (10 % and 5 %): the stored discount is
\* 100 + 50, and the final price is 1000 - 150 - 250 of scholarship.
C18_Witness ==
    /\ \E p \in Procs : resp[p].op = "calcular" /\ resp[p].id = 1 /\ resp[p].ok
    /\ Cardinality({ rp \in ReglasAplicables(recibos[1], detalles[1]) :
                        rp.pct_descuento # 0 }) = 2
    /\ detalles[1].descuento = 100 * 100 + 100 * 50
    /\ detalles[1].precio_final = 600

\* A Compute of receipt r by another process than p was answered ok.
C19_YaCalculado(p, r) ==
    \E q \in Procs \ {p} :
        resp[q].op = "calcular" /\ resp[q].id = r /\ resp[q].ok

\* C19: when a Compute of a receipt has succeeded and the rules, the
\* scholarships and the lines are as they were, the transaction of a
\* further Compute of that receipt commits and leaves every line (discount,
\* surcharge, scholarship, final price) and the total of the receipt as the
\* first one left them.
C19_CalcularIdempotente ==
    [][ \A p \in Procs, r \in Recibos :
          ( /\ pc[p] = "calcular_tx"
            /\ pc'[p] # pc[p]
            /\ loc[p].id = r
            /\ C19_YaCalculado(p, r) )
          => /\ pc'[p] = "calcular_finally"
             /\ detalles' = detalles
             /\ recibos'[r].total_recibo = recibos[r].total_recibo ]_vars

\* Receipt 1 was computed by both processes, one after the other: its line
\* holds discount 150, scholarship 250 and final price 600, its total is 600.
C19_Witness ==
    /\ \A p \in Procs : resp[p].op = "calcular" /\ resp[p].id = 1 /\ resp[p].ok
    /\ detalles[1].descuento = 100 * 150
    /\ detalles[1].beca = 100 * 250
    /\ detalles[1].precio_final = 600
    /\ recibos[1].total_recibo = 600

(* ------------------------------------------------------------------ *)
(* Draft receipts                                                      *)
(* ------------------------------------------------------------------ *)
\* C20: in every committed state a receipt whose status is Draft has no
\* bucket reference and no issued-at timestamp.
C20_BorradorSinCorte ==
    \A r \in Recibos :
        recibos[r].status_recibo = "Borrador"
        => /\ recibos[r].encorte = NULL_REF
           /\ recibos[r].fecha_emision = NULL

\* An Issue request failed inside its transaction after the status flip and
\* was rolled back, its receipt is a Draft with neither column set, while
\* the other receipt was issued and carries both.
C20_Witness ==
    \E p \in Procs, r \in Recibos :
        /\ resp[p].op = "emitir"
        /\ resp[p].error = "db"
        /\ resp[p].id = r
        /\ recibos[r].status_recibo = "Borrador"
        /\ recibos[r].encorte = NULL_REF
        /\ recibos[r].fecha_emision = NULL
        /\ \E r2 \in Recibos \ {r} :
              /\ recibos[r2].status_recibo = "Emitido"
              /\ recibos[r2].encorte # NULL_REF
              /\ recibos[r2].fecha_emision # NULL

(* ------------------------------------------------------------------ *)
(* Totals, errors and frames                                           *)
(* ------------------------------------------------------------------ *)
\* The final price line d holds after the step if it is a line of r.
C21_Aporta(d, r) ==
    IF detalles'[d].id_recibo = r THEN detalles'[d].precio_final ELSE 0

\* C21: a step that commits a Compute or an Issue leaves as total of the
\* receipt the sum of the final prices of its lines, which is not negative,
\* and no step at all writes a negative total.
C21_TotalEsSumaNoNegativa ==
    /\ [][ \A p \in Procs, r \in Recibos :
             PrecioCommit(p, r)
             => /\ recibos'[r].total_recibo
                     = C21_Aporta(1, r) + C21_Aporta(2, r) + C21_Aporta(3, r)
                /\ recibos'[r].total_recibo >= 0 ]_vars
    /\ [][ \A r \in Recibos :
             recibos'[r].total_recibo # recibos[r].total_recibo
             => recibos'[r].total_recibo >= 0 ]_vars

\* Receipt 2 was issued with two lines of different final prices and its
\* total is their sum.
C21_Witness ==
    /\ recibos[2].status_recibo = "Emitido"
    /\ detalles[2].id_recibo = 2
    /\ detalles[3].id_recibo = 2
    /\ detalles[2].precio_final > detalles[3].precio_final
    /\ detalles[3].precio_final > 0
    /\ recibos[2].total_recibo = detalles[2].precio_final + detalles[3].precio_final

\* C22: when the document phase of a Cancel that committed throws, the
\* response of the request is a success that carries a warning, and the
\* receipt is Cancelled.
C22_FallaPdfCancelarEsAdvertencia ==
    [][ \A p \in Procs :
          ( /\ loc[p].op = "cancelar"
            /\ loc[p].error = "pdf"
            /\ pc[p] = "cancelar_finally"
            /\ pc'[p] = "idle" )
          => /\ resp'[p].ok
             /\ resp'[p].warning
             /\ recibos'[loc[p].id].status_recibo = "Cancelado" ]_vars

\* Draft receipt r lacks its student, campus or operating date, or its
\* stored total is negative.
C23_Incompleto(r) ==
    /\ recibos[r].status_recibo = "Borrador"
    /\ \/ recibos[r].id_alumno = 0
       \/ recibos[r].id_plantel = 0
       \/ recibos[r].fecha = 0
       \/ recibos[r].total_recibo < 0

C23_ErrorValidacion == { "incompletos", "total_negativo" }

\* C23: an Issue request for a Draft receipt that lacks its student, campus
\* or operating date, or whose total is negative, is rejected on arrival
\* with a validation error, and neither its arrival nor any later step of
\* the request changes the status, bucket, issued-at or total of the
\* receipt, any line, or any bucket.
C23_EmitirIncompletoRechazado ==
    /\ [][ \A p \in Procs, r \in Recibos :
             ( /\ pc[p] = "idle"
               /\ pc'[p] # "idle"
               /\ loc'[p].op = "emitir"
               /\ loc'[p].id = r
               /\ C23_Incompleto(r) )
             => /\ pc'[p] = "emitir_catch"
                /\ loc'[p].error \in C23_ErrorValidacion
                /\ recibos' = recibos
                /\ detalles' = detalles
                /\ cortes' = cortes ]_vars
    /\ [][ \A p \in Procs :
             ( /\ loc[p].op = "emitir"
               /\ loc[p].error \in C23_ErrorValidacion
               /\ pc'[p] # pc[p] )
             => /\ recibos'[loc[p].id].status_recibo = "Borrador"
                /\ recibos'[loc[p].id].encorte = NULL_REF
                /\ recibos'[loc[p].id].fecha_emision = NULL
                /\ recibos'[loc[p].id].total_recibo = recibos[loc[p].id].total_recibo
                /\ detalles' = detalles
                /\ cortes' = cortes ]_vars

\* The Issue of receipt 2, a Draft with lines and a negative stored total,
\* was answered with the validation error; the receipt is as it was.
C23_Witness ==
    \E p \in Procs :
        /\ resp[p].op = "emitir"
        /\ resp[p].id = 2
        /\ resp[p].error = "total_negativo"
        /\ C23_Incompleto(2)
        /\ recibos[2].total_recibo < 0
        /\ recibos[2].encorte = NULL_REF
        /\ \E d \in Detalles :
              detalles[d].id_recibo = 2 /\ detalles[d].status_detalle = "Borrador"

\* The request that process p runs has committed the transaction that sets
\* the generating-document lock of its receipt.
C24_PusoLock(p) ==
    CASE loc[p].op = "emitir"    -> loc[p].corteId # NULL_REF
      [] loc[p].op = "cancelar"  -> pc[p] # "cancelar_tx" /\ loc[p].error # "no_valido"
      [] loc[p].op = "regenerar" -> pc[p] # "regenerar_tx" /\ loc[p].error # "no_valido"
      [] OTHER                   -> FALSE

\* C24: a step of a request clears the generating-document lock of a
\* receipt only if that same request set it.
C24_LiberaSoloQuienPuso ==
    [][ \A p \in Procs, r \in Recibos :
          ( /\ pc'[p] # pc[p]
            /\ loc[p].id = r
            /\ recibos[r].generando_pdf = TRUE
            /\ recibos'[r].generando_pdf = FALSE )
          => C24_PusoLock(p) ]_vars

(* ------------------------------------------------------------------ *)
(* Exclusion of Compute and Issue                                      *)
(* ------------------------------------------------------------------ *)
\* Processes inside the transaction of a Compute or an Issue of receipt r.
C25_EnTransaccion(r) ==
    { p \in Procs : loc[p].id = r /\ pc[p] \in { "calcular_tx", "emitir_tx" } }

\* The amounts of line d.
C25_Importes(det) ==
    << det.descuento, det.recargo, det.beca, det.precio_final >>

\* C25: at most one Compute or Issue transaction of a receipt is open at a
\* time; the step that issues a receipt leaves on it and on its lines the
\* amounts of a recomputation made in that step from the rows as they are;
\* and no step of a Compute request changes the total or the line amounts
\* of a receipt that is Issued.
C25_CalcularEmitirExcluyentes ==
    /\ [] ( \A r \in Recibos : Cardinality(C25_EnTransaccion(r)) <= 1 )
    /\ [][ \A r \in Recibos :
             ( recibos[r].status_recibo = "Borrador"
               /\ recibos'[r].status_recibo = "Emitido" )
             => LET calc == calculateReciboTotal(recibos, detalles, r)
                IN /\ recibos'[r].total_recibo = calc.total
                   /\ \A d \in Detalles :
                         detalles[d].id_recibo = r
                         => C25_Importes(detalles'[d]) = C25_Importes(calc.detalles[d]) ]_vars
    /\ [][ \A p \in Procs, r \in Recibos :
             ( /\ loc[p].op = "calcular"
               /\ loc[p].id = r
               /\ pc'[p] # pc[p]
               /\ recibos[r].status_recibo = "Emitido" )
             => /\ recibos'[r].total_recibo = recibos[r].total_recibo
                /\ \A d \in Detalles :
                      detalles[d].id_recibo = r
                      => C25_Importes(detalles'[d]) = C25_Importes(detalles[d]) ]_vars

\* While the Issue of a receipt is past its commit, a Compute request for
\* the same receipt that arrived in between stands rejected; the receipt is
\* Issued with the total of the Issue.
C25_Witness ==
    \E p, q \in Procs, r \in Recibos :
        /\ p # q
        /\ loc[p].op = "emitir" /\ loc[p].id = r /\ pc[p] \in EmitirTrasCommit
        /\ loc[q].op = "calcular" /\ loc[q].id = r /\ pc[q] = "calcular_catch"
        /\ recibos[r].status_recibo = "Emitido"
        /\ recibos[r].total_recibo > 0

(* ------------------------------------------------------------------ *)
(* Amounts are written only on a Draft                                 *)
(* ------------------------------------------------------------------ *)
\* Total of receipt r and amounts of its lines, read from the given tables.
C26_Montos(recs, dets, r) ==
    << recs[r].total_recibo,
       [ d \in { x \in Detalles : dets[x].id_recibo = r } |->
           << dets[d].descuento, dets[d].recargo, dets[d].beca, dets[d].precio_final >> ] >>

\* C26: a step that changes the total of a receipt or an amount of one of
\* its lines starts with the receipt in Draft; a Compute request that
\* arrives for an Issued or Cancelled receipt goes straight to its error
\* branch and answers with an error; and no step of a Cancel or of a
\* Regenerate request changes any of these amounts.
C26_MontosSoloEnBorrador ==
    /\ [][ \A r \in Recibos :
             C26_Montos(recibos', detalles', r) # C26_Montos(recibos, detalles, r)
             => recibos[r].status_recibo = "Borrador" ]_vars
    /\ [][ \A p \in Procs, r \in Recibos :
             ( /\ pc[p] = "idle"
               /\ loc'[p].op = "calcular"
               /\ loc'[p].id = r
               /\ recibos[r].status_recibo \in { "Emitido", "Cancelado" } )
             => /\ pc'[p] = "calcular_catch"
                /\ loc'[p].error # NULL
                /\ C26_Montos(recibos', detalles', r) = C26_Montos(recibos, detalles, r) ]_vars
    /\ [][ \A p \in Procs :
             ( loc[p].op = "calcular" /\ loc[p].error # NULL /\ pc'[p] = "idle" )
             => resp'[p].ok = FALSE ]_vars
    /\ [][ \A p \in Procs, r \in Recibos :
             ( /\ pc'[p] # pc[p]
               /\ ( loc[p].op \in { "cancelar", "regenerar" }
                      \/ loc'[p].op \in { "cancelar", "regenerar" } ) )
             => C26_Montos(recibos', detalles', r) = C26_Montos(recibos, detalles, r) ]_vars

\* A Compute request for an Issued or Cancelled receipt with a positive
\* total stands rejected while a Cancel or a Regenerate of the same receipt
\* has reached its finally block.
C26_Witness ==
    \E p, q \in Procs, r \in Recibos :
        /\ p # q
        /\ loc[p].op = "calcular" /\ loc[p].id = r /\ loc[p].error = "no_encontrado"
        /\ recibos[r].status_recibo \in { "Emitido", "Cancelado" }
        /\ recibos[r].total_recibo > 0
        /\ loc[q].op \in { "cancelar", "regenerar" } /\ loc[q].id = r
        /\ pc[q] \in { "cancelar_finally", "regenerar_finally" }

(* ------------------------------------------------------------------ *)
(* Line status                                                         *)
(* ------------------------------------------------------------------ *)
\* C27: in every state, every line of a receipt that is Issued or
\* Cancelled carries the status of its receipt.
C27_DetallesReflejanRecibo ==
    \A d \in Detalles, r \in Recibos :
        ( detalles[d].id_recibo = r
          /\ recibos[r].status_recibo \in { "Emitido", "Cancelado" } )
        => detalles[d].status_detalle = recibos[r].status_recibo

(* ------------------------------------------------------------------ *)
(* Cancel keeps the bucket                                             *)
(* ------------------------------------------------------------------ *)
\* The totals of a cortes row.
C28_Totales(fila) ==
    << fila.total_efectivo, fila.total_tarjeta, fila.total_transferencia,
       fila.total, fila.gastos_efectivo, fila.total_efectivo_neto >>

\* C28: the step that cancels a receipt keeps its bucket reference, its
\* issued-at and its total, stamps cancelled-at and clears the
\* cancellation request; when the receipt has a bucket, the totals of that
\* bucket become those recomputed from the receipts as the step leaves
\* them and every other bucket row is untouched; when it has none, no
\* bucket row changes.
C28_CancelarConservaCorte ==
    [][ \A r \in Recibos :
          ( recibos[r].status_recibo = "Emitido"
            /\ recibos'[r].status_recibo = "Cancelado" )
          => LET c == recibos[r].encorte
                 t == sp_recalcular_corte(recibos', c)
             IN /\ recibos'[r].encorte = c
                /\ recibos'[r].fecha_emision = recibos[r].fecha_emision
                /\ recibos'[r].total_recibo = recibos[r].total_recibo
                /\ recibos'[r].fecha_cancelacion # NULL
                /\ recibos'[r].solicita_cancelacion = FALSE
                /\ IF c = NULL_REF
                   THEN cortes' = cortes
                   ELSE /\ DOMAIN cortes' = DOMAIN cortes \cup {c}
                        /\ C28_Totales(cortes'[c]) =
                             << t.total_efectivo, t.total_tarjeta, t.total_transferencia,
                                t.total, t.gastos_efectivo, t.total_efectivo_neto >>
                        /\ \A x \in DOMAIN cortes : x # c => cortes'[x] = cortes[x] ]_vars

\* A Cancel has just committed on a receipt with a positive total whose
\* bucket still holds another Issued receipt.
C28_Witness ==
    \E p \in Procs, r, r2 \in Recibos :
        /\ pc[p] = "cancelar_pdf" /\ loc[p].id = r
        /\ recibos[r].status_recibo = "Cancelado"
        /\ recibos[r].total_recibo > 0
        /\ recibos[r].encorte # NULL_REF
        /\ recibos[r].fecha_cancelacion # NULL
        /\ r2 # r
        /\ recibos[r2].status_recibo = "Emitido"
        /\ recibos[r2].encorte = recibos[r].encorte
        /\ cortes[recibos[r].encorte].total = recibos[r2].total_recibo

(* ------------------------------------------------------------------ *)
(* Regenerate                                                          *)
(* ------------------------------------------------------------------ *)
\* C29: a Regenerate request enters its transaction exactly when the
\* receipt is Issued or Cancelled and its generating-document lock is
\* clear, and is otherwise answered with an error; no step of a Regenerate
\* request changes the status, the total, the bucket reference or the
\* dates of any receipt, any line item, or any bucket row.
C29_RegenerarAdmiteYConserva ==
    /\ [][ \A p \in Procs, r \in Recibos :
             ( pc[p] = "idle" /\ loc'[p].op = "regenerar" /\ loc'[p].id = r )
             => IF recibos[r].status_recibo \in { "Emitido", "Cancelado" }
                   /\ recibos[r].generando_pdf = FALSE
                THEN pc'[p] = "regenerar_tx" /\ loc'[p].error = NULL
                ELSE pc'[p] # "regenerar_tx" /\ loc'[p].error # NULL ]_vars
    /\ [][ \A p \in Procs :
             ( loc[p].op = "regenerar" /\ loc[p].error # NULL /\ pc'[p] = "idle" )
             => resp'[p].ok = FALSE ]_vars
    /\ [][ \A p \in Procs :
             ( pc'[p] # pc[p]
               /\ ( loc[p].op = "regenerar" \/ loc'[p].op = "regenerar" ) )
             => /\ detalles' = detalles
                /\ cortes' = cortes
                /\ \A r \in Recibos :
                      /\ recibos'[r].status_recibo = recibos[r].status_recibo
                      /\ recibos'[r].total_recibo = recibos[r].total_recibo
                      /\ recibos'[r].encorte = recibos[r].encorte
                      /\ recibos'[r].fecha_emision = recibos[r].fecha_emision
                      /\ recibos'[r].fecha_cancelacion = recibos[r].fecha_cancelacion ]_vars

\* A Regenerate of an Issued or Cancelled receipt has been answered with
\* success, and
\* a Regenerate of a Draft receipt has been answered with an error.
C29_Witness ==
    \E p, q \in Procs :
        /\ p # q
        /\ resp[p].op = "regenerar" /\ resp[p].ok
        /\ recibos[resp[p].id].status_recibo \in { "Emitido", "Cancelado" }
        /\ resp[q].op = "regenerar" /\ ~resp[q].ok /\ resp[q].error # NULL
        /\ recibos[resp[q].id].status_recibo = "Borrador"

(* ------------------------------------------------------------------ *)
(* Recovery of a missing document                                      *)
(* ------------------------------------------------------------------ *)
\* The reference of the fallback path of receipt r.
C30_RutaFallback(r) == << "gs", "recibos", ToString(r) >>

\* C30: a Regenerate request that arrives for an Issued receipt with no
\* artifact reference and the lock clear enters its transaction; when its
\* render and upload have succeeded, its write-back stores the reference of
\* the fallback path of the receipt; a request that read no reference and
\* answers with success answers with that reference, has put the document
\* at that path and leaves the lock clear; no step of the request changes
\* the status; and a stored fallback reference is replaced only by the
\* write-back of an Issue or of a Cancel of the same receipt.
C30_RegenerarRecupera ==
    /\ [][ \A p \in Procs, r \in Recibos :
             ( /\ pc[p] = "idle" /\ loc'[p].op = "regenerar" /\ loc'[p].id = r
               /\ recibos[r].status_recibo = "Emitido"
               /\ recibos[r].ruta_pdf = NULL_REF
               /\ recibos[r].generando_pdf = FALSE )
             => pc'[p] = "regenerar_tx" /\ loc'[p].error = NULL ]_vars
    /\ [][ \A p \in Procs, r \in Recibos :
             ( /\ loc[p].op = "regenerar" /\ loc[p].id = r
               /\ pc[p] = "regenerar_ruta" /\ pc'[p] # pc[p]
               /\ loc'[p].error = NULL )
             => recibos'[r].ruta_pdf = C30_RutaFallback(r) ]_vars
    /\ [][ \A p \in Procs, r \in Recibos :
             ( /\ loc[p].op = "regenerar" /\ loc[p].id = r
               /\ loc[p].rowRuta = NULL_REF
               /\ pc'[p] = "idle" /\ resp'[p].ok )
             => /\ resp'[p].ruta_pdf = C30_RutaFallback(r)
                /\ gcs'[<< "recibos", ToString(r) >>] # "none"
                /\ recibos'[r].ruta_pdf # NULL_REF
                /\ recibos'[r].generando_pdf = FALSE ]_vars
    /\ [][ \A p \in Procs, r \in Recibos :
             ( loc[p].op = "regenerar" /\ loc[p].id = r /\ pc'[p] # pc[p] )
             => recibos'[r].status_recibo = recibos[r].status_recibo ]_vars
    /\ [][ \A r \in Recibos :
             ( recibos[r].ruta_pdf = C30_RutaFallback(r)
               /\ recibos'[r].ruta_pdf # C30_RutaFallback(r) )
             => \E q \in Procs :
                   /\ loc[q].op \in { "emitir", "cancelar" }
                   /\ loc[q].id = r
                   /\ pc'[q] # pc[q] ]_vars

\* An Issue answered with a warning and no reference; a later Regenerate of
\* the same receipt answered with success; the receipt is Issued, holds the
\* fallback reference, its lock is clear and the document is at the path.
C30_Witness ==
    \E p, q \in Procs, r \in Recibos :
        /\ p # q
        /\ resp[q].op = "emitir" /\ resp[q].id = r /\ resp[q].ok /\ resp[q].warning
        /\ resp[q].ruta_pdf = NULL_REF
        /\ resp[p].op = "regenerar" /\ resp[p].id = r /\ resp[p].ok
        /\ recibos[r].status_recibo = "Emitido"
        /\ recibos[r].ruta_pdf = C30_RutaFallback(r)
        /\ recibos[r].generando_pdf = FALSE
        /\ gcs[<< "recibos", ToString(r) >>] = "Emitido"

(* ------------------------------------------------------------------ *)
(* Cancel overwrites the document in place                             *)
(* ------------------------------------------------------------------ *)
\* C31: the document phase of a Cancel uploads the cancelled document to
\* the path of the reference stored on the receipt, and to the path derived
\* from the receipt id only when none is stored, and touches no other
\* object; the write-back that follows stores the reference of the path
\* uploaded to, which is the stored one whenever one was stored; and a
\* Cancel answered with success answers with that reference.
C31_CancelarSobrescribe ==
    /\ [][ \A p \in Procs, r \in Recibos :
             ( /\ loc[p].op = "cancelar" /\ loc[p].id = r
               /\ pc[p] = "cancelar_pdf" /\ pc'[p] = "cancelar_ruta" )
             => LET previa == recibos[r].ruta_pdf
                    path   == IF previa # NULL_REF
                              THEN Tail(previa)
                              ELSE << "recibos", ToString(r) >>
                IN /\ gcs'[path] = "Cancelado"
                   /\ \A k \in DOMAIN gcs : k # path => gcs'[k] = gcs[k]
                   /\ loc'[p].ruta = << "gs" >> \o path
                   /\ previa # NULL_REF => loc'[p].ruta = previa ]_vars
    /\ [][ \A p \in Procs, r \in Recibos :
             ( /\ loc[p].op = "cancelar" /\ loc[p].id = r
               /\ pc[p] = "cancelar_ruta" /\ pc'[p] # pc[p]
               /\ loc'[p].error = NULL )
             => recibos'[r].ruta_pdf = loc[p].ruta ]_vars
    /\ [][ \A p \in Procs :
             ( loc[p].op = "cancelar" /\ pc'[p] = "idle" /\ resp'[p].ok )
             => resp'[p].ruta_pdf = loc[p].ruta ]_vars

\* A Cancel has been answered with success for a receipt whose reference,
\* stored by its Issue, is not the one derived from its id: the receipt
\* still holds it and the cancelled document is at its path.
C31_Witness ==
    \E p \in Procs :
        /\ resp[p].op = "cancelar" /\ resp[p].ok
        /\ LET r == resp[p].id
           IN /\ recibos[r].status_recibo = "Cancelado"
              /\ recibos[r].ruta_pdf # NULL_REF
              /\ recibos[r].ruta_pdf # << "gs", "recibos", ToString(r) >>
              /\ recibos[r].ruta_pdf = resp[p].ruta_pdf
              /\ gcs[Tail(recibos[r].ruta_pdf)] = "Cancelado"

(* ------------------------------------------------------------------ *)
(* Scholarship                                                         *)
(* ------------------------------------------------------------------ *)
\* C33: a step that commits a pricing stores on every line it priced the
\* scholarship base x percentage of the (student of the receipt, product of
\* the line) pair when the line is Monthly, the percentage being 0 when
\* the pair has no row, and 0 when the line is not Monthly.
C33_BecaSoloMensual ==
    [][ \A p \in Procs, r \in Recibos, d \in Detalles :
          ( PrecioCommit(p, r) /\ LineaBorrador(d, r) )
          => detalles'[d].beca =
               IF detalles[d].frecuencia_producto = "Mensual"
               THEN detalles[d].precio_base
                    * BecaMonto(recibos[r].id_alumno, detalles[d].id_producto)
               ELSE 0 ]_vars

\* Both receipts were computed: the Monthly line of the pair with a 25 %
\* scholarship holds 250.00, the Monthly line of a pair with no row holds
\* 0, and the OneTime line of a pair that has a 50 % row holds 0.
C33_Witness ==
    /\ \A r \in Recibos :
          \E p \in Procs : resp[p].op = "calcular" /\ resp[p].id = r /\ resp[p].ok
    /\ detalles[1].frecuencia_producto = "Mensual"
    /\ BecaMonto(recibos[detalles[1].id_recibo].id_alumno, detalles[1].id_producto) = 25
    /\ detalles[1].beca = 25000
    /\ detalles[1].precio_final > 0
    /\ detalles[2].frecuencia_producto = "Mensual"
    /\ BecaMonto(recibos[detalles[2].id_recibo].id_alumno, detalles[2].id_producto) = 0
    /\ detalles[2].beca = 0
    /\ detalles[2].precio_final > 0
    /\ detalles[3].frecuencia_producto # "Mensual"
    /\ BecaMonto(recibos[detalles[3].id_recibo].id_alumno, detalles[3].id_producto) = 50
    /\ detalles[3].beca = 0
    /\ detalles[3].precio_final > 0

(* ------------------------------------------------------------------ *)
(* Rule selection of OneTime lines                                     *)
(* ------------------------------------------------------------------ *)
\* The rules in force for the line with its billing period erased, in the
\* order of the query.
C34_ReglasSinPeriodo(recibo, det) ==
    PorPrioridad({ rp \in Reglas :
                     ReglaVigente(rp, recibo, [ det EXCEPT !.mes = 0, !.anio = 0 ]) })

\* C34: a step that commits a pricing stores on every line that is not
\* Monthly the discount and the surcharge of all the rules in force for
\* its product, payment method and operating date, whatever billing
\* period the line carries and whatever cases the rules list, and the
\* final price that follows from them; on a Monthly line it stores those
\* of the rules in force that also list the temporal case of the line.
C34_UnicoSinCasoTemporal ==
    [][ \A p \in Procs, r \in Recibos, d \in Detalles :
          ( PrecioCommit(p, r) /\ LineaBorrador(d, r) )
          => LET det    == detalles[d]
                 todas  == C34_ReglasSinPeriodo(recibos[r], det)
                 caso   == Caso(det, Anio(recibos[r].fecha), Mes(recibos[r].fecha))
                 reglas == IF det.frecuencia_producto = "Mensual"
                           THEN SelectSeq(todas, LAMBDA rp : caso \in rp.casos)
                           ELSE todas
                 desc   == SumaReglas(reglas, det.precio_base, "pct_descuento")
                 rec    == SumaReglas(reglas, det.precio_base, "pct_recargo")
             IN /\ detalles'[d].descuento = desc
                /\ detalles'[d].recargo = rec
                /\ detalles'[d].precio_final =
                     Max(0, CeilCent(100 * det.precio_base - desc - detalles'[d].beca
                                     + rec + 100 * det.monto_ajuste)) ]_vars

\* Receipt 2 was computed: its OneTime line carries a billing period of a
\* past month, the only rule of its product lists the case Corriente
\* alone, and the line holds the 5 % discount of that rule.
C34_Witness ==
    /\ \E p \in Procs : resp[p].op = "calcular" /\ resp[p].id = 2 /\ resp[p].ok
    /\ detalles[3].id_recibo = 2
    /\ detalles[3].frecuencia_producto # "Mensual"
    /\ detalles[3].mes = 12 /\ detalles[3].anio = 2023
    /\ Caso(detalles[3], Anio(recibos[2].fecha), Mes(recibos[2].fecha)) = "Vencido"
    /\ \A rp \in Reglas : rp.id_producto = detalles[3].id_producto => rp.casos = {"Corriente"}
    /\ detalles[3].descuento = detalles[3].precio_base * 5
    /\ detalles[3].descuento > 0

(* ------------------------------------------------------------------ *)
(* Monthly charges and monthly products of the students                *)
(* ------------------------------------------------------------------ *)
\* UUID(): an id no row of the table carries.
IdNuevo(ids) == IF ids = {} THEN 1 ELSE 1 + (CHOOSE m \in ids : \A x \in ids : x <= m)

\* The unique key of alumnos_cargos.
ClaveCargo(c) == << c.id_alumno, c.id_producto, c.mes, c.anio >>

\* The unique key of alumnos_mensuales.
ClaveMensual(am) == << am.id_alumno, am.id_producto >>

\* Mutant: the statement is a REPLACE: a row of the same key is deleted
\* and inserted again.
InsertarCargo_Reemplaza(cargos, alumno, producto, mes, anio) ==
    LET resto == { c \in cargos : ClaveCargo(c) # << alumno, producto, mes, anio >> }
    IN resto \cup { [ id_cargo |-> IdNuevo({ c.id_cargo : c \in cargos }),
                      id_alumno |-> alumno, id_producto |-> producto,
                      mes |-> mes, anio |-> anio,
                      status_cargo |-> "Activo", motivo_cancelacion |-> NULL ] }

\* One row of INSERT INTO alumnos_cargos ... ON DUPLICATE KEY UPDATE
\* status_cargo = 'Activo', motivo_cancelacion = NULL.
InsertarCargo(cargos, alumno, producto, mes, anio) ==
    IF \E c \in cargos : ClaveCargo(c) = << alumno, producto, mes, anio >>
    THEN { IF ClaveCargo(c) = << alumno, producto, mes, anio >>
           THEN [ c EXCEPT !.status_cargo = "Activo", !.motivo_cancelacion = NULL ]
           ELSE c : c \in cargos }
    ELSE cargos \cup { [ id_cargo |-> IdNuevo({ c.id_cargo : c \in cargos }),
                         id_alumno |-> alumno, id_producto |-> producto,
                         mes |-> mes, anio |-> anio,
                         status_cargo |-> "Activo", motivo_cancelacion |-> NULL ] }

\* SELECT ... FROM alumnos_mensuales am JOIN alumnos a ... WHERE
\* a.status = 'Activo': the rows to insert, as (student, product) pairs.
CargosPorGenerar(als, mensuales) ==
    { << am.id_alumno, am.id_producto >> :
        am \in { x \in mensuales : /\ x.id_alumno \in DOMAIN als
                                    /\ als[x.id_alumno].status = "Activo" } }

RECURSIVE InsertarCargos(_, _, _, _)
\* The INSERT ... SELECT, row by row.
InsertarCargos(cargos, pares, mes, anio) ==
    IF pares = {} THEN cargos
    ELSE LET par == CHOOSE x \in pares :
                      \A y \in pares : x[1] < y[1] \/ (x[1] = y[1] /\ x[2] <= y[2])
         IN InsertarCargos(InsertarCargo(cargos, par[1], par[2], mes, anio),
                           pares \ {par}, mes, anio)

\* POST generar-cargos-mensuales with body { mes, anio } (0: not given):
\* defaults and validation. The period is kept as 100 * anio + mes.
GenerarCargosBegin(p, mes, anio) ==
    /\ Recibe(p, "generar_cargos", 0)
    /\ LET m  == IF mes = 0 \/ anio = 0 THEN Escenario.mes ELSE mes
           an == IF mes = 0 \/ anio = 0 THEN Escenario.anio ELSE anio
           l  == LocDe("generar_cargos", 100 * an + m)
       IN IF m < 1 \/ m > 12
          THEN /\ loc' = [ loc EXCEPT ![p] = [ l EXCEPT !.error = "mes_invalido" ] ]
               /\ pc' = [ pc EXCEPT ![p] = "generar_fin" ]
          ELSE IF an < 2000 \/ an > 2100
          THEN /\ loc' = [ loc EXCEPT ![p] = [ l EXCEPT !.error = "anio_invalido" ] ]
               /\ pc' = [ pc EXCEPT ![p] = "generar_fin" ]
          ELSE /\ loc' = [ loc EXCEPT ![p] = l ]
               /\ pc' = [ pc EXCEPT ![p] = "generar_tx" ]
    /\ UNCHANGED <<recibos, detalles, cortes, gcs, rowLock>>
    /\ UNCHANGED TablasAlumnos

\* The transaction and the response that follows it.
GenerarCargosCommit(p) ==
    /\ pc[p] = "generar_tx"
    /\ \E falla \in BOOLEAN :
          IF falla
          THEN /\ alumnos_cargos' = alumnos_cargos
               /\ pc' = [ pc EXCEPT ![p] = "idle" ]
               /\ resp' = [ resp EXCEPT ![p] = Respuesta([ loc[p] EXCEPT !.error = "db" ]) ]
               /\ loc' = [ loc EXCEPT ![p] = LocIdle ]
          ELSE /\ alumnos_cargos' =
                    InsertarCargos(alumnos_cargos,
                                   CargosPorGenerar(alumnos, alumnos_mensuales),
                                   loc[p].id % 100, loc[p].id \div 100)
               /\ Termina(p)
    /\ UNCHANGED <<recibos, detalles, cortes, gcs, rowLock, nreq>>
    /\ UNCHANGED <<alumnos, alumnos_mensuales>>

\* The 400 response of a request that failed validation.
GenerarCargosRechazo(p) ==
    /\ pc[p] = "generar_fin"
    /\ Termina(p)
    /\ UNCHANGED <<recibos, detalles, cortes, gcs, rowLock, nreq>>
    /\ UNCHANGED TablasAlumnos

ProductoDe(id) == CHOOSE p \in Productos : p.id_producto = id

\* Mutant: the DELETE forgets the level of the product.
AsignacionInvalida_SoloPlantel(am, plantelActual, nivelActual) ==
    ProductoDe(am.id_producto).id_plantel # plantelActual

\* WHERE clause of DELETE am FROM alumnos_mensuales am JOIN productos p.
AsignacionInvalida(am, plantelActual, nivelActual) ==
    LET p == ProductoDe(am.id_producto)
    IN \/ p.id_plantel # plantelActual
       \/ /\ p.aplica_nivel # NULL
          /\ (nivelActual = NULL \/ p.aplica_nivel # nivelActual)

\* WHERE clause of the INSERT ... SELECT of the defaults of every level.
DefaultsGlobales(plantelActual) ==
    { p.id_producto :
        p \in { x \in Productos : /\ x.id_plantel = plantelActual
                                   /\ x.producto_default = TRUE
                                   /\ x.status = "Activo"
                                   /\ x.frecuencia = "Mensual"
                                   /\ x.aplica_nivel = NULL } }

\* WHERE clause of the INSERT ... SELECT of the defaults of one level.
DefaultsNivel(plantelActual, nivelActual) ==
    { p.id_producto :
        p \in { x \in Productos : /\ x.id_plantel = plantelActual
                                   /\ x.producto_default = TRUE
                                   /\ x.status = "Activo"
                                   /\ x.frecuencia = "Mensual"
                                   /\ x.aplica_nivel = nivelActual } }

\* One row of INSERT INTO alumnos_mensuales ... ON DUPLICATE KEY UPDATE
\* id_producto = id_producto.
InsertarMensual(mensuales, alumno, producto) ==
    IF \E am \in mensuales : ClaveMensual(am) = << alumno, producto >>
    THEN mensuales
    ELSE mensuales \cup
           { [ id_alumno_mensual |-> IdNuevo({ am.id_alumno_mensual : am \in mensuales }),
               id_alumno |-> alumno, id_producto |-> producto, beca_monto |-> 0 ] }

RECURSIVE InsertarMensuales(_, _, _)
InsertarMensuales(mensuales, alumno, productos) ==
    IF productos = {} THEN mensuales
    ELSE LET x == CHOOSE y \in productos : \A z \in productos : y <= z
         IN InsertarMensuales(InsertarMensual(mensuales, alumno, x), alumno,
                              productos \ {x})

\* The transaction of the synchronization: delete, insert the defaults of
\* every level, insert the defaults of the student's level when there is one.
SincronizarTabla(mensuales, alumno, row) ==
    LET plantelActual == row.id_plantel_academico
        nivelActual   == row.nivel
        validas       == { am \in mensuales :
                             ~( am.id_alumno = alumno
                                /\ AsignacionInvalida(am, plantelActual, nivelActual) ) }
        globales      == InsertarMensuales(validas, alumno, DefaultsGlobales(plantelActual))
    IN IF nivelActual # NULL
       THEN InsertarMensuales(globales, alumno, DefaultsNivel(plantelActual, nivelActual))
       ELSE globales

\* POST sincronizar-productos-alumno with body { id_alumno }.
SincronizarBegin(p, a) ==
    /\ Recibe(p, "sincronizar", a)
    /\ loc' = [ loc EXCEPT ![p] = LocDe("sincronizar", a) ]
    /\ pc' = [ pc EXCEPT ![p] = "sincronizar_tx" ]
    /\ UNCHANGED <<recibos, detalles, cortes, gcs, rowLock>>
    /\ UNCHANGED TablasAlumnos

\* The transaction and the response that follows it.
SincronizarCommit(p) ==
    /\ pc[p] = "sincronizar_tx"
    /\ LET a == loc[p].id
       IN \E falla \in BOOLEAN :
            IF a \notin DOMAIN alumnos \/ falla
            THEN /\ alumnos_mensuales' = alumnos_mensuales
                 /\ pc' = [ pc EXCEPT ![p] = "idle" ]
                 /\ resp' = [ resp EXCEPT ![p] =
                                Respuesta([ loc[p] EXCEPT !.error =
                                              IF a \notin DOMAIN alumnos
                                              THEN "no_encontrado" ELSE "db" ]) ]
                 /\ loc' = [ loc EXCEPT ![p] = LocIdle ]
            ELSE /\ alumnos_mensuales' =
                      SincronizarTabla(alumnos_mensuales, a, alumnos[a])
                 /\ Termina(p)
    /\ UNCHANGED <<recibos, detalles, cortes, gcs, rowLock, nreq>>
    /\ UNCHANGED <<alumnos, alumnos_cargos>>

\* The periods a caller names: two months, none, and two invalid ones.
PeriodosPedidos == { <<1, 2024>>, <<2, 2024>>, <<0, 0>>, <<13, 2024>>, <<1, 1999>> }

InitAlumnos ==
    /\ recibos = [ r \in Recibos |-> ReciboInicial(r) ]
    /\ detalles = [ d \in Detalles |-> DetalleInicial(d, Escenario.mes) ]
    /\ cortes = [ c \in {} |-> 0 ]
    /\ gcs = [ path \in Paths |-> "none" ]
    /\ rowLock = [ r \in Recibos |-> 0 ]
    /\ pc = [ p \in Procs |-> "idle" ]
    /\ loc = [ p \in Procs |-> LocIdle ]
    /\ resp = [ p \in Procs |-> RespNone ]
    /\ nreq = 0
    /\ \E e \in EntradasAlumnos :
          /\ alumnos = [ a \in Alumnos |-> AlumnoDe(e, a) ]
          /\ alumnos_mensuales = MensualesDe(e)
          /\ alumnos_cargos = CargosDe(e)

NextAlumnos ==
    \/ \E p \in Procs, per \in PeriodosPedidos : GenerarCargosBegin(p, per[1], per[2])
    \/ \E p \in Procs : GenerarCargosCommit(p)
    \/ \E p \in Procs : GenerarCargosRechazo(p)
    \/ \E p \in Procs, a \in Alumnos \cup {3} : SincronizarBegin(p, a)
    \/ \E p \in Procs : SincronizarCommit(p)

SpecAlumnos == InitAlumnos /\ [][NextAlumnos]_vars

(* ------------------------------------------------------------------ *)
(* One charge per student, product, month and year                     *)
(* ------------------------------------------------------------------ *)
\* Charge c is the charge of (student, product) par for month m of year an.
C35_EsDe(c, par, m, an) ==
    /\ c.id_alumno = par[1] /\ c.id_producto = par[2]
    /\ c.mes = m /\ c.anio = an

\* The (student, product) pairs of the monthly products of active students.
C35_Pares ==
    { << am.id_alumno, am.id_producto >> :
        am \in { x \in alumnos_mensuales : alumnos[x.id_alumno].status = "Activo" } }

\* Every pair has its charge of month m of year an, active and with no
\* cancellation reason, in the table cargos.
C35_Generado(cargos, m, an) ==
    \A par \in C35_Pares :
       \E c \in cargos : /\ C35_EsDe(c, par, m, an)
                          /\ c.status_cargo = "Activo"
                          /\ c.motivo_cancelacion = NULL

\* C35: no two charge rows share student, product, month and year; a
\* committed generation for a month and year leaves for every monthly
\* product of an active student its charge of that month, active, keeps
\* every row that existed under its id and, outside that month's charges
\* of those pairs, as it was, and adds no other row; and a generation for
\* a month and year whose charges are all there and active changes nothing.
C35_UnCargoPorClave ==
    /\ [] ( \A c1, c2 \in alumnos_cargos :
              ( /\ c1.id_alumno = c2.id_alumno /\ c1.id_producto = c2.id_producto
                /\ c1.mes = c2.mes /\ c1.anio = c2.anio )
              => c1 = c2 )
    /\ [][ \A p \in Procs :
             ( pc[p] = "generar_tx" /\ pc'[p] = "idle" /\ resp'[p].ok )
             => LET m  == loc[p].id % 100
                    an == loc[p].id \div 100
                IN /\ C35_Generado(alumnos_cargos', m, an)
                   /\ \A c \in alumnos_cargos :
                         \E c2 \in alumnos_cargos' :
                            /\ c2.id_cargo = c.id_cargo
                            /\ C35_EsDe(c2, << c.id_alumno, c.id_producto >>, c.mes, c.anio)
                            /\ ( \A par \in C35_Pares : ~C35_EsDe(c, par, m, an) ) => c2 = c
                   /\ \A c2 \in alumnos_cargos' :
                         \/ \E c \in alumnos_cargos : c.id_cargo = c2.id_cargo
                         \/ \E par \in C35_Pares : C35_EsDe(c2, par, m, an)
                   /\ C35_Generado(alumnos_cargos, m, an)
                         => alumnos_cargos' = alumnos_cargos ]_vars

\* Both processes were answered with success for the generation of the
\* same month: the table holds exactly one charge per monthly product of
\* an active student, two or more, and the charge that was cancelled
\* before is active again under its id.
C35_Witness ==
    /\ \A p \in Procs :
          /\ resp[p].op = "generar_cargos" /\ resp[p].ok
          /\ resp[p].id = 100 * Escenario.anio + Escenario.mes
    /\ Cardinality(C35_Pares) >= 2
    /\ Cardinality(alumnos_cargos) = Cardinality(C35_Pares)
    /\ C35_Generado(alumnos_cargos, Escenario.mes, Escenario.anio)
    /\ \E c \in alumnos_cargos : c.id_cargo = 1 /\ c.status_cargo = "Activo"
    /\ \E par \in C35_Pares : par[1] = 1 /\ par[2] = 1

(* ------------------------------------------------------------------ *)
(* A rejected Cancel                                                   *)
(* ------------------------------------------------------------------ *)
\* C36: no step of a Cancel request whose locking read found no row to
\* cancel (flag not set, status not Issued, or lock held) changes the
\* receipt: its cancellation-request flag and its generating-document
\* lock stay as they were.
C36_RechazoNoEscribe ==
    [][ \A p \in Procs :
          ( /\ loc[p].op = "cancelar"
            /\ loc[p].error = "no_valido"
            /\ pc'[p] # pc[p] )
          => recibos'[loc[p].id] = recibos[loc[p].id] ]_vars

(* ------------------------------------------------------------------ *)
(* The duplicate guard after a cancellation                            *)
(* ------------------------------------------------------------------ *)
\* Receipt r2, of the student of r and with status st, holds a Monthly
\* line with the product, month and year of a Monthly line of r.
C37_MismoCargo(r, r2, st) ==
    /\ r2 # r
    /\ recibos[r2].status_recibo = st
    /\ recibos[r2].id_alumno = recibos[r].id_alumno
    /\ \E d1 \in Detalles, d2 \in Detalles :
          /\ detalles[d1].id_recibo = r
          /\ detalles[d1].frecuencia_producto = "Mensual"
          /\ detalles[d2].id_recibo = r2
          /\ detalles[d2].frecuencia_producto = "Mensual"
          /\ detalles[d2].id_producto = detalles[d1].id_producto
          /\ detalles[d2].mes = detalles[d1].mes
          /\ detalles[d2].anio = detalles[d1].anio

\* C37: an Issue request that arrives for an unlocked Draft receipt with
\* Draft lines and complete data, when a Cancelled receipt of the same
\* student holds a Monthly line with the product, month and year of one of
\* its Monthly lines and no Issued receipt does, is admitted to the write
\* phase with no duplicate error.
C37_CanceladoNoCuenta ==
    [][ \A p \in Procs, r \in Recibos :
          ( /\ Llega(p, "emitir", r)
            /\ recibos[r].status_recibo = "Borrador"
            /\ recibos[r].generando_pdf = FALSE
            /\ recibos[r].id_alumno # 0 /\ recibos[r].id_plantel # 0
            /\ recibos[r].fecha # 0 /\ recibos[r].total_recibo >= 0
            /\ \E d \in Detalles : detalles[d].id_recibo = r
                                     /\ detalles[d].status_detalle = "Borrador"
            /\ \E r2 \in Recibos : C37_MismoCargo(r, r2, "Cancelado")
            /\ ~ \E r2 \in Recibos : C37_MismoCargo(r, r2, "Emitido") )
          => ( /\ loc'[p].error = NULL
               /\ pc'[p] = "emitir_tx" ) ]_vars

\* One process, the only one that has served requests, issued and cancelled
\* a receipt and has then issued another receipt of the same student with a
\* Monthly line of the same product, month and year; the line of the
\* Cancelled receipt is still marked Issued.
C37_Witness ==
    \E r \in Recibos, r2 \in Recibos :
        /\ recibos[r].status_recibo = "Emitido"
        /\ recibos[r].fecha_emision # NULL
        /\ C37_MismoCargo(r, r2, "Cancelado")
        /\ \E d \in Detalles : /\ detalles[d].id_recibo = r2
                                 /\ detalles[d].frecuencia_producto = "Mensual"
                                 /\ detalles[d].status_detalle = "Emitido"
        /\ \E p \in Procs : /\ loc[p].op = "emitir" /\ loc[p].id = r
                              /\ pc[p] = "emitir_postcommit"
                              /\ \A q \in Procs \ {p} :
                                    pc[q] = "idle" /\ resp[q].op = "none"

(* ------------------------------------------------------------------ *)
(* Stamps of Issued and Cancelled receipts                             *)
(* ------------------------------------------------------------------ *)
\* C38: in every committed state a receipt that is Issued or Cancelled has
\* its issue time and its cash-cut bucket reference set, and a Cancelled
\* receipt also has its cancellation time set.
C38_SellosCompletos ==
    \A r \in Recibos :
        /\ recibos[r].status_recibo \in { "Emitido", "Cancelado" }
              => ( /\ recibos[r].fecha_emision # NULL
                   /\ recibos[r].encorte # NULL_REF )
        /\ recibos[r].status_recibo = "Cancelado"
              => recibos[r].fecha_cancelacion # NULL

\* One receipt is Cancelled and the other Issued, each linked to an
\* existing bucket, and no transaction is open.
C38_Witness ==
    /\ \E r \in Recibos, r2 \in Recibos :
          /\ recibos[r].status_recibo = "Cancelado"
          /\ recibos[r].fecha_cancelacion = "NOW"
          /\ recibos[r].encorte \in DOMAIN cortes
          /\ recibos[r2].status_recibo = "Emitido"
          /\ recibos[r2].fecha_emision = "NOW"
          /\ recibos[r2].encorte \in DOMAIN cortes
    /\ \A r \in Recibos : rowLock[r] = 0

(* ------------------------------------------------------------------ *)
(* The receipt-count matrix of a hydrated cash-cut                     *)
(* ------------------------------------------------------------------ *)
\* Receipts as the Issue and Cancel transactions leave them: a status, the
\* cashier, and a payment method, which no statement of Issue validates
\* (the receipt document prints 'N/A' for a receipt without one).
EntradasMatriz ==
    [ status  : { "Borrador", "Emitido", "Cancelado" },
      forma   : { "Efectivo", "Tarjeta", "Transferencia", NULL },
      usuario : { 1, 2 } ]

ReciboMatriz(e, r) ==
    LET base == [ ReciboInicial(r) EXCEPT !.id_usuario = e.usuario,
                                          !.forma_pago = e.forma ]
    IN IF e.status = "Borrador"
       THEN base
       ELSE [ base EXCEPT !.status_recibo = e.status,
                          !.encorte = generateCorteId(base),
                          !.fecha_emision = "NOW",
                          !.fecha_cancelacion = IF e.status = "Cancelado"
                                                THEN "NOW" ELSE NULL ]

\* The bucket ids a caller can name: those of both cashiers.
CorteIdsMatriz ==
    { generateCorteId([ ReciboInicial(1) EXCEPT !.id_usuario = u ]) : u \in { 1, 2 } }

RECURSIVE CortesDe(_, _)
\* The table cortes after the recalculations of the buckets in ids.
CortesDe(recs, ids) ==
    IF ids = {} THEN [ c \in {} |-> 0 ]
    ELSE LET c == CHOOSE x \in ids : TRUE
         IN CortesTras(CortesDe(recs, ids \ {c}), recs, c)

InitMatriz ==
    /\ \E e1 \in EntradasMatriz, e2 \in EntradasMatriz :
          recibos = [ r \in Recibos |-> IF r = 1 THEN ReciboMatriz(e1, r)
                                                  ELSE ReciboMatriz(e2, r) ]
    /\ detalles = [ d \in Detalles |->
                      [ DetalleInicial(d, Escenario.mes + 1) EXCEPT
                          !.status_detalle =
                              IF recibos[DetalleInicial(d, Escenario.mes + 1).id_recibo]
                                    .status_recibo = "Borrador"
                              THEN "Borrador" ELSE "Emitido" ] ]
    /\ cortes = CortesDe(recibos, CorteIdsMatriz)
    /\ gcs = [ path \in Paths \cup { getCortePdfPath(ToString(c)) : c \in CorteIdsMatriz }
                |-> "none" ]
    /\ rowLock = [ r \in Recibos |-> 0 ]
    /\ pc = [ p \in Procs |-> "idle" ]
    /\ loc = [ p \in Procs |-> LocIdle ]
    /\ resp = [ p \in Procs |-> RespNone ]
    /\ nreq = 0
    /\ alumnos = [ a \in Alumnos |-> AlumnoInicial(a) ]
    /\ alumnos_mensuales = MensualesBeca
    /\ alumnos_cargos = {}

NextMatriz ==
    \/ \E c \in CorteIdsMatriz : CortePdfTx(1, c)
    \/ CortePdf(1)
    \/ CortePdfFalla(1)
    \/ CortePdfRuta(1)
    \/ CortePdfFin(1)

SpecMatriz == InitMatriz /\ [][NextMatriz]_vars

\* Number of receipts linked to bucket c with status st.
C39_Ligados(c, st) ==
    Cardinality({ r \in Recibos : /\ recibos[r].encorte = c
                                   /\ recibos[r].status_recibo = st })

\* C39: the matrix that the hydrated read of a cash-cut returns has, for
\* Issued and for Cancelled, a row total equal to the number of receipts
\* linked to the bucket with that status, column totals equal to the sum
\* of their two cells, and a global total equal to the number of all
\* Issued or Cancelled receipts linked to the bucket.
C39_MatrizCuentaTodos ==
    [][ \A p \in Procs :
          Paso(p, "corte_pdf", "corte_ruta")
          => LET m == loc'[p].matriz
                 c == loc[p].corteId
             IN /\ m.recibos_matrix.Emitido.total_fila = C39_Ligados(c, "Emitido")
                /\ m.recibos_matrix.Cancelado.total_fila = C39_Ligados(c, "Cancelado")
                /\ m.totales_columnas.Tarjeta
                      = m.recibos_matrix.Emitido.Tarjeta + m.recibos_matrix.Cancelado.Tarjeta
                /\ m.totales_columnas.Transferencia
                      = m.recibos_matrix.Emitido.Transferencia
                        + m.recibos_matrix.Cancelado.Transferencia
                /\ m.totales_columnas.Efectivo
                      = m.recibos_matrix.Emitido.Efectivo + m.recibos_matrix.Cancelado.Efectivo
                /\ m.total_global_recibos
                      = C39_Ligados(c, "Emitido") + C39_Ligados(c, "Cancelado") ]_vars

(* ------------------------------------------------------------------ *)
(* Synchronization of a student's monthly products                     *)
(* ------------------------------------------------------------------ *)
\* The rows of student a in the table mensuales.
C40_DeAlumno(mensuales, a) == { am \in mensuales : am.id_alumno = a }

\* Product prod is of the campus of the student row and is for every
\* level or for the level of the student.
C40_Aplica(prod, row) ==
    /\ prod.id_plantel = row.id_plantel_academico
    /\ prod.aplica_nivel = NULL \/ prod.aplica_nivel = row.nivel

\* In the table mensuales every assignment of student a is of a product of
\* the student's campus and level, and every active default Monthly
\* product of that campus and level is assigned to a exactly once.
C40_Sincronizado(mensuales, a, row) ==
    /\ \A am \in C40_DeAlumno(mensuales, a) :
          \E prod \in Productos : /\ prod.id_producto = am.id_producto
                                   /\ C40_Aplica(prod, row)
    /\ \A prod \in Productos :
          ( /\ C40_Aplica(prod, row)
            /\ prod.producto_default = TRUE
            /\ prod.status = "Activo"
            /\ prod.frecuencia = "Mensual" )
          => Cardinality({ am \in C40_DeAlumno(mensuales, a) :
                             am.id_producto = prod.id_producto }) = 1

\* C40: when the synchronization of a student commits, the student's
\* assignments are all of products of the current campus that are for
\* every level or for the current level, every active default Monthly
\* product of that campus applicable to the student is assigned exactly
\* once, the rows of other students are as they were, and a
\* synchronization of a student whose assignments already are so changes
\* nothing.
C40_SincronizacionEstable ==
    [][ \A p \in Procs :
          ( pc[p] = "sincronizar_tx" /\ pc'[p] = "idle" /\ resp'[p].ok )
          => LET a == loc[p].id
             IN /\ C40_Sincronizado(alumnos_mensuales', a, alumnos[a])
                /\ alumnos_mensuales' \ C40_DeAlumno(alumnos_mensuales', a)
                      = alumnos_mensuales \ C40_DeAlumno(alumnos_mensuales, a)
                /\ C40_Sincronizado(alumnos_mensuales, a, alumnos[a])
                      => alumnos_mensuales' = alumnos_mensuales ]_vars

\* Student 1 moved to campus 2: both processes were answered with success
\* for its synchronization, the assignment of the product of campus 1 is
\* gone, and its only assignment is a new row for the default product of
\* campus 2; the row of student 2 is as it was.
C40_Witness ==
    /\ \A p \in Procs : resp[p].op = "sincronizar" /\ resp[p].id = 1 /\ resp[p].ok
    /\ alumnos[1].id_plantel_academico = 2
    /\ C40_DeAlumno(alumnos_mensuales, 1)
          = { [ id_alumno_mensual |-> 3, id_alumno |-> 1, id_producto |-> 4,
                beca_monto |-> 0 ] }
    /\ Mensual(2, 2, 2) \in alumnos_mensuales

====
